---- MODULE Spec2Model ----
(***************************************************************************)
(* A model of bislericli's order command: the checkout orchestration of   *)
(* cmd/bislericli (runOrder), the HTTP session client of internal/bisleri *)
(* and the page extractors it relies on.                                  *)
(*                                                                         *)
(* Pages are modelled by the features the extractors read from them, text *)
(* that is parsed (amounts, request paths) as sequences of characters.    *)
(***************************************************************************)
EXTENDS Integers, Sequences, FiniteSets, TLC

VARIABLES
    pc,          \* position of the order command
    attempt,     \* number of the current run of the order sequence (0 before the first)
    result,      \* "" while running, else "ok" or the error the command returned
    errItems,    \* the items named by a "cart contains other items" error
    quantity,    \* --qty after defaulting
    returnJars,  \* --return after defaulting
    allowExtra,  \* --allow-extra
    profile,     \* the profile in memory
    profileFile, \* the profile file on disk
    cart,        \* what the extractors read from the cart page being reconciled
    poll,        \* confirmCartQuantity's attempt (0 outside the loop)
    shipping,    \* csrf token and shipment UUID of the shipping page
    payment,     \* what the extractors read from the payment page
    beginErr,    \* runOrder's beginErr
    sent,        \* requests of the current stage: how many, the last update, the last poll
    placed,      \* status and Location of the answer to the place-order request, and
                 \* the error of the payment page fetched after the order
    orderID,     \* the order ID printed on success
    prompts,     \* confirmation prompts shown
    answer,      \* outcome of the last confirmation prompt
    reauths,     \* OTP logins started by the order command
    retriesLeft, \* reauthentication retries the command may still make
    otpLogin,    \* the terminal OTP login: its position, its calls and what it returned
    logout,      \* Client.Logout: its position and the requests it has issued
    call,        \* the application of a function of the packages: argument and value
    run,         \* the blocking step an order run is in, and the run's deadline
    auth,        \* auth login: its position, the profile files, what it read and built
    stages       \* the answers to the session check and to the two checkout submissions

vars == <<pc, attempt, result, errItems, quantity, returnJars, allowExtra, profile,
          profileFile, cart, poll, shipping, payment, beginErr, sent, placed,
          orderID, prompts, answer, reauths, retriesLeft, otpLogin, logout, call, run, auth,
          stages>>

(***************************************************************************)
(* Bounds of the model.                                                    *)
(***************************************************************************)
MaxQty == 2
MaxCartLines == 2

(***************************************************************************)
(* Text helpers (package strings).                                         *)
(***************************************************************************)
Upper == <<"A", "B", "C", "D", "E", "F", "G", "H", "I", "J", "K", "L", "M",
           "N", "O", "P", "Q", "R", "S", "T", "U", "V", "W", "X", "Y", "Z">>

Lower == <<"a", "b", "c", "d", "e", "f", "g", "h", "i", "j", "k", "l", "m",
           "n", "o", "p", "q", "r", "s", "t", "u", "v", "w", "x", "y", "z">>

LowerChar(c) ==
    IF \E i \in 1..26 : Upper[i] = c
    THEN Lower[CHOOSE i \in 1..26 : Upper[i] = c]
    ELSE c

ToLower(s) == [i \in DOMAIN s |-> LowerChar(s[i])]

HasPrefix(s, p) == Len(p) <= Len(s) /\ SubSeq(s, 1, Len(p)) = p

Contains(s, sub) ==
    \E i \in 1..(Len(s) - Len(sub) + 1) : SubSeq(s, i, i + Len(sub) - 1) = sub

IsSpace(c) == c \in {" ", "\t", "\n", "\r"}

RECURSIVE TrimLeft(_)
TrimLeft(s) == IF s # <<>> /\ IsSpace(Head(s)) THEN TrimLeft(Tail(s)) ELSE s

RECURSIVE TrimRight(_)
TrimRight(s) ==
    IF s # <<>> /\ IsSpace(s[Len(s)]) THEN TrimRight(SubSeq(s, 1, Len(s) - 1)) ELSE s

TrimSpace(s) == TrimRight(TrimLeft(s))

EqualFold(a, b) == ToLower(a) = ToLower(b)

(***************************************************************************)
(* Product identifiers.  They are kept as whole strings; lower-casing and *)
(* trimming are tabulated for the identifiers the model's carts hold.     *)
(***************************************************************************)
productID20L == "BIS-20LTR01-90"

EmptyJarProduct == "Bis-20LTREmpty-Product"

DepositProduct == "Bis-20LTRDeposit-Amount-Product"

OtherIDs == {EmptyJarProduct, DepositProduct, "BIS-500ML-24", ""}

TrimID(id) == IF id = " " THEN "" ELSE id

LowerID(id) ==
    CASE id = "BIS-20LTR01-90" -> "bis-20ltr01-90"
      [] id = "Bis-20LTREmpty-Product" -> "bis-20ltrempty-product"
      [] id = "Bis-20LTRDeposit-Amount-Product" -> "bis-20ltrdeposit-amount-product"
      [] id = "BIS-500ML-24" -> "bis-500ml-24"
      [] OTHER -> id

EqualFoldID(a, b) == LowerID(a) = LowerID(b)

(***************************************************************************)
(* Cart page.  A cart page is modelled by what the three strategies of    *)
(* ExtractCartItems find in it: the elements carrying a data-uuid         *)
(* attribute, the Cart-UpdateQuantity action URLs and the matches of the  *)
(* windowed regex scan; and by the two cart-count phrasings.              *)
(***************************************************************************)
NoMatch == -1

LineUUIDs == <<"a1b2c3d4e5f60001", "a1b2c3d4e5f60002", "a1b2c3d4e5f60003", "a1b2c3d4e5f60004">>

\* One element carrying a data-uuid attribute: the product identifier that
\* extractProductIDFromSelection returns for it (trimmed, "" when it finds
\* none), the quantity of extractQuantityFromSelection, and whether the
\* attribute is other than blank.
CartLines ==
    {[ProductID |-> productID20L, Quantity |-> q, hasUUID |-> TRUE] : q \in 0..MaxQty}
    \cup {[ProductID |-> "bis-20ltr01-90", Quantity |-> MaxQty, hasUUID |-> TRUE]}
    \cup {[ProductID |-> p, Quantity |-> 1, hasUUID |-> TRUE] : p \in OtherIDs}
    \cup {[ProductID |-> productID20L, Quantity |-> 1, hasUUID |-> FALSE]}

LineSeqs(n) == UNION {[1..k -> CartLines] : k \in 0..n}

Placed(ls) ==
    [i \in DOMAIN ls |->
        [ProductID |-> ls[i].ProductID,
         UUID |-> IF ls[i].hasUUID THEN LineUUIDs[i] ELSE "",
         Quantity |-> ls[i].Quantity]]

\* What the two fallback strategies find: <<action URLs, regex hits>>.
FallbackFinds ==
    {<< <<>>, <<>> >>,
     << <<[ProductID |-> productID20L, UUID |-> LineUUIDs[3], Quantity |-> MaxQty]>>,
        <<[ProductID |-> "BIS-500ML-24", UUID |-> LineUUIDs[4], Quantity |-> 0]>> >>,
     << <<[ProductID |-> "", UUID |-> LineUUIDs[3], Quantity |-> 1]>>,
        <<[ProductID |-> productID20L, UUID |-> LineUUIDs[4], Quantity |-> 0]>> >>,
     << <<[ProductID |-> " ", UUID |-> LineUUIDs[3], Quantity |-> 1],
          [ProductID |-> productID20L, UUID |-> "", Quantity |-> 1]>>,
        <<>> >>}

\* The matches of "Cart N Items" and of "N Item(s)": <<first, second>>.
CountFinds == {<<NoMatch, NoMatch>>, <<0, NoMatch>>, <<3, 0>>, <<NoMatch, 3>>}

CartPage(s, f, c) ==
    [scan |-> Placed(s), actionURLs |-> f[1], regexHits |-> f[2],
     cartCount |-> c[1], itemCount |-> c[2]]

\* The fallback strategies are varied on the pages whose element scan finds
\* no line with a uuid.
CartPages ==
    {CartPage(s, << <<>>, <<>> >>, c) : s \in LineSeqs(MaxCartLines), c \in CountFinds}
    \cup {CartPage(s, f, c) :
            s \in {t \in LineSeqs(1) : \A i \in DOMAIN t : ~t[i].hasUUID},
            f \in FallbackFinds, c \in CountFinds}

\* parser.go extractCartItemsFromActionURLs: URLs without pid or uuid are skipped.
extractCartItemsFromActionURLs(page) ==
    SelectSeq(page.actionURLs, LAMBDA it : ~(it.ProductID = "" \/ it.UUID = ""))

\* ExtractCartItems adding the lines of the action URLs to those of the scan.
ExtractCartItems_mixed(page) ==
    LET items == SelectSeq(page.scan, LAMBDA it : it.UUID # "")
        actionItems == extractCartItemsFromActionURLs(page)
    IN  IF Len(items) + Len(actionItems) > 0 THEN items \o actionItems
        ELSE page.regexHits

\* parser.go ExtractCartItems: the data-uuid scan (blank uuid skipped), else the
\* action URLs, else the regex scan.
ExtractCartItems(page) ==
    LET items == SelectSeq(page.scan, LAMBDA it : it.UUID # "")
        actionItems == extractCartItemsFromActionURLs(page)
    IN  IF Len(items) > 0 THEN items
        ELSE IF Len(actionItems) > 0 THEN actionItems
        ELSE page.regexHits

\* ExtractCartCount that knows the first phrasing only.
ExtractCartCount_firstOnly(page) ==
    IF page.cartCount # NoMatch THEN <<page.cartCount, TRUE>> ELSE <<0, FALSE>>

\* parser.go ExtractCartCount: <<count, found>>.
ExtractCartCount(page) ==
    IF page.cartCount # NoMatch THEN <<page.cartCount, TRUE>>
    ELSE IF page.itemCount # NoMatch THEN <<page.itemCount, TRUE>>
    ELSE <<0, FALSE>>

\* ExtractCartItem that returns the last matching line instead of the first.
ExtractCartItem_last(page, productID) ==
    LET items == ExtractCartItems(page)
        hits == {i \in DOMAIN items : EqualFoldID(items[i].ProductID, productID)}
    IN  IF hits = {} THEN <<"", 0, FALSE>>
        ELSE LET i == CHOOSE j \in hits : \A k \in hits : j >= k
             IN  <<items[i].UUID, items[i].Quantity, TRUE>>

\* parser.go ExtractCartItem: <<uuid, quantity, ok>> of the first line whose
\* product equals productID under case folding.
ExtractCartItem(page, productID) ==
    LET items == ExtractCartItems(page)
        hits == {i \in DOMAIN items : EqualFoldID(items[i].ProductID, productID)}
    IN  IF hits = {} THEN <<"", 0, FALSE>>
        ELSE LET i == CHOOSE j \in hits : \A k \in hits : j <= k
             IN  <<items[i].UUID, items[i].Quantity, TRUE>>

\* filterExtraItems that stops at the first offending line.
RECURSIVE filterExtraItems_first(_, _)
filterExtraItems_first(items, productID) ==
    IF items = <<>> THEN <<>>
    ELSE LET id == LowerID(TrimID(Head(items).ProductID))
             allowed == {LowerID(productID), LowerID(EmptyJarProduct),
                         LowerID(DepositProduct)}
         IN  IF id = "" THEN <<"unknown-item">>
             ELSE IF id \notin allowed THEN <<Head(items).ProductID>>
             ELSE filterExtraItems_first(Tail(items), productID)

\* main.go filterExtraItems: the identifiers of the lines that are neither the
\* product, the empty-jar product nor the deposit line.
RECURSIVE filterExtraItems(_, _)
filterExtraItems(items, productID) ==
    IF items = <<>> THEN <<>>
    ELSE LET id == LowerID(TrimID(Head(items).ProductID))
             allowed == {LowerID(productID), LowerID(EmptyJarProduct),
                         LowerID(DepositProduct)}
             rest == filterExtraItems(Tail(items), productID)
         IN  IF id = "" THEN <<"unknown-item">> \o rest
             ELSE IF id \notin allowed THEN <<Head(items).ProductID>> \o rest
             ELSE rest

(***************************************************************************)
(* HTTP session client (internal/bisleri client.go, checkout.go).         *)
(* A response is its status code and the path of the request that was     *)
(* answered last (after redirects); status 0 is a transport error, for    *)
(* which the client holds no response.                                    *)
(***************************************************************************)
maxAttempts == 3

CartPath == <<"/", "m", "y", "c", "a", "r", "t">>

CheckoutPath == <<"/", "c", "h", "e", "c", "k", "o", "u", "t">>

OrdersPath == <<"/", "m", "y", "-", "o", "r", "d", "e", "r", "s">>

LoginPath == <<"/", "L", "o", "g", "i", "n", "-", "S", "h", "o", "w">>

RootPath == <<"/">>

OtherPath == <<"/", "m", "a", "i", "n", "t", "e", "n", "a", "n", "c", "e">>

AnyPrefix == <<>>

NetErr == [status |-> 0, path |-> <<>>]

Resp(s, p) == [status |-> s, path |-> p]

validateResponsePath_caseSensitive(resp, expectedPrefix) ==
    LET path == resp.path
    IN  IF expectedPrefix = <<>> \/ HasPrefix(path, expectedPrefix) THEN ""
        ELSE IF path = <<"/">> \/ path = <<>> THEN "ErrNotAuthenticated"
        ELSE IF Contains(path, <<"l", "o", "g", "i", "n">>) \/ Contains(path, <<"a", "c", "c", "o", "u", "n", "t">>)
                \/ Contains(path, <<"h", "o", "m", "e">>)
        THEN "ErrNotAuthenticated"
        ELSE "unexpected redirect"

\* client.go validateResponsePath: "" for nil.
validateResponsePath(resp, expectedPrefix) ==
    LET path == resp.path
        lower == ToLower(path)
    IN  IF expectedPrefix = <<>> \/ HasPrefix(path, expectedPrefix) THEN ""
        ELSE IF path = <<"/">> \/ path = <<>> THEN "ErrNotAuthenticated"
        ELSE IF Contains(lower, <<"l", "o", "g", "i", "n">>) \/ Contains(lower, <<"a", "c", "c", "o", "u", "n", "t">>)
                \/ Contains(lower, <<"h", "o", "m", "e">>)
        THEN "ErrNotAuthenticated"
        ELSE "unexpected redirect"

\* The answers one GET of a page can get.
PageResponses(expected) ==
    {Resp(200, expected), Resp(200, LoginPath), Resp(200, RootPath),
     Resp(200, OtherPath), Resp(404, expected), Resp(429, expected),
     Resp(500, expected), Resp(502, expected), NetErr}

PageAnswers(expected) == [1..maxAttempts -> PageResponses(expected)]

RECURSIVE fetchLoop_retryAnyStatus(_, _, _, _)
fetchLoop_retryAnyStatus(answers, expectedPrefix, n, lastErr) ==
    IF n > maxAttempts
    THEN [err |-> "request failed after retries", status |-> lastErr, gets |-> maxAttempts]
    ELSE LET resp == answers[n]
         IN  IF resp.status = 0
             THEN fetchLoop_retryAnyStatus(answers, expectedPrefix, n + 1, 0)
             ELSE IF validateResponsePath(resp, expectedPrefix) # ""
             THEN [err |-> validateResponsePath(resp, expectedPrefix), status |-> 0,
                   gets |-> n]
             ELSE IF resp.status >= 400
             THEN fetchLoop_retryAnyStatus(answers, expectedPrefix, n + 1, resp.status)
             ELSE [err |-> "", status |-> 0, gets |-> n]

\* client.go fetchPageWithRetry, from attempt n on; answers[i] is the answer
\* to the i-th GET.  The result names the error ("" for none), the status code
\* of the HTTPStatusError it is or wraps (0 for none) and the GETs issued.
RECURSIVE fetchLoop(_, _, _, _)
fetchLoop(answers, expectedPrefix, n, lastErr) ==
    IF n > maxAttempts
    THEN [err |-> "request failed after retries", status |-> lastErr, gets |-> maxAttempts]
    ELSE LET resp == answers[n]
         IN  IF resp.status = 0
             THEN fetchLoop(answers, expectedPrefix, n + 1, 0)
             ELSE IF validateResponsePath(resp, expectedPrefix) # ""
             THEN [err |-> validateResponsePath(resp, expectedPrefix), status |-> 0,
                   gets |-> n]
             ELSE IF resp.status >= 400
             THEN IF resp.status >= 500 \/ resp.status = 429
                  THEN fetchLoop(answers, expectedPrefix, n + 1, resp.status)
                  ELSE [err |-> "HTTPStatusError", status |-> resp.status, gets |-> n]
             ELSE [err |-> "", status |-> 0, gets |-> n]

fetchPageWithRetry(answers, expectedPrefix) == fetchLoop(answers, expectedPrefix, 1, 0)

\* client.go validateResponsePath: the path its "unexpected redirect to %s"
\* error carries.
redirectedTo(resp, expectedPrefix) ==
    IF validateResponsePath(resp, expectedPrefix) = "unexpected redirect" THEN resp.path
    ELSE <<>>

FetchCartPage(answers) == fetchPageWithRetry(answers, CartPath)

FetchShippingPage(answers) == fetchPageWithRetry(answers, CheckoutPath)

FetchPaymentPage(answers) == fetchPageWithRetry(answers, CheckoutPath)

\* The distinct results of a page fetch.
FetchResults(expected) ==
    {[err |-> r.err, status |-> r.status] :
        r \in {fetchPageWithRetry(a, expected) : a \in PageAnswers(expected)}}

\* The answers a single request (no retry) can get.
Responses == {Resp(200, <<>>), Resp(404, <<>>), Resp(500, <<>>), NetErr}

\* client.go VerifyAuthenticated: GET /my-orders, once.
VerifyAnswers ==
    {[resp |-> r, emptyBody |-> e] :
        r \in {Resp(200, OrdersPath), Resp(200, LoginPath), Resp(200, RootPath),
               Resp(200, OtherPath), Resp(500, OrdersPath), NetErr},
        e \in BOOLEAN}

VerifyAuthenticated(ans) ==
    IF ans.resp.status = 0 THEN "transport error"
    ELSE IF ans.resp.status >= 400 THEN "auth check failed"
    ELSE IF validateResponsePath(ans.resp, OrdersPath) # ""
    THEN validateResponsePath(ans.resp, OrdersPath)
    ELSE IF ans.emptyBody THEN "auth check failed: empty response"
    ELSE ""

\* client.go AddProduct; issued tells whether a request went out.
AddProduct(qty, resp) ==
    IF qty <= 0 THEN [err |-> "quantity must be positive", issued |-> FALSE]
    ELSE IF resp.status = 0 THEN [err |-> "transport error", issued |-> TRUE]
    ELSE IF resp.status >= 400 THEN [err |-> "add product failed", issued |-> TRUE]
    ELSE [err |-> validateResponsePath(resp, AnyPrefix), issued |-> TRUE]

\* client.go UpdateQuantity.
UpdateQuantity(resp) ==
    IF resp.status = 0 THEN "transport error"
    ELSE IF resp.status >= 400 THEN "update quantity failed"
    ELSE validateResponsePath(resp, AnyPrefix)

\* client.go UpdateJarQuantity.
UpdateJarQuantity(qty, resp) ==
    IF qty < 0 THEN [err |-> "jar quantity cannot be negative", issued |-> FALSE]
    ELSE IF resp.status = 0 THEN [err |-> "transport error", issued |-> TRUE]
    ELSE IF resp.status >= 400 THEN [err |-> "update jar quantity failed", issued |-> TRUE]
    ELSE [err |-> validateResponsePath(resp, AnyPrefix), issued |-> TRUE]

\* client.go SetCityLocation (the city is not blank where runOrder calls it).
SetCityLocation(city, resp) ==
    IF TrimSpace(city) = <<>> THEN [err |-> "city is required", issued |-> FALSE]
    ELSE IF resp.status = 0 THEN [err |-> "transport error", issued |-> TRUE]
    ELSE IF resp.status >= 400 THEN [err |-> "HTTPStatusError", issued |-> TRUE]
    ELSE [err |-> "", issued |-> TRUE]

(***************************************************************************)
(* Delivery city (main.go).                                                *)
(***************************************************************************)
Pune == <<"P", "u", "n", "e">>

Mumbai == <<"M", "u", "m", "b", "a", "i">>

NaviMumbai == <<"N", "a", "v", "i", " ", "M", "u", "m", "b", "a", "i">>

\* The alias table of matchCityOption; <<>> for a key the table lacks.
aliases(c) ==
    CASE c = <<"b", "a", "n", "g", "a", "l", "o", "r", "e">> -> <<"b", "e", "n", "g", "a", "l", "u", "r", "u">>
      [] c = <<"b", "e", "n", "g", "a", "l", "u", "r", "u">> -> <<"b", "a", "n", "g", "a", "l", "o", "r", "e">>
      [] c = <<"g", "u", "r", "g", "a", "o", "n">> -> <<"g", "u", "r", "u", "g", "r", "a", "m">>
      [] c = <<"g", "u", "r", "u", "g", "r", "a", "m">> -> <<"g", "u", "r", "g", "a", "o", "n">>
      [] c = <<"b", "o", "m", "b", "a", "y">> -> <<"m", "u", "m", "b", "a", "i">>
      [] OTHER -> <<>>

\* The first option that equals c under case folding, as a set of indexes.
FoldHits(c, options) == {i \in DOMAIN options : EqualFold(options[i], c)}

First(S) == CHOOSE i \in S : \A j \in S : i <= j

\* matchCityOption taking the first option that contains or is contained in
\* the candidate, before the alias.
matchCityOption_firstContained(cand, options) ==
    LET candidate == TrimSpace(cand)
        lowerCandidate == ToLower(candidate)
        matches == {i \in DOMAIN options :
                        \/ Contains(lowerCandidate, ToLower(options[i]))
                        \/ Contains(ToLower(options[i]), lowerCandidate)}
    IN  IF candidate = <<>> \/ Len(options) = 0 THEN << <<>>, FALSE >>
        ELSE IF matches # {} THEN <<options[First(matches)], TRUE>>
        ELSE << <<>>, FALSE >>

\* main.go matchCityOption: <<match, ok>>.
matchCityOption(cand, options) ==
    LET candidate == TrimSpace(cand)
        lowerCandidate == ToLower(candidate)
        mapped == aliases(lowerCandidate)
        matches == {i \in DOMAIN options :
                        \/ Contains(lowerCandidate, ToLower(options[i]))
                        \/ Contains(ToLower(options[i]), lowerCandidate)}
    IN  IF candidate = <<>> \/ Len(options) = 0 THEN << <<>>, FALSE >>
        ELSE IF FoldHits(candidate, options) # {}
        THEN <<options[First(FoldHits(candidate, options))], TRUE>>
        ELSE IF mapped # <<>> /\ FoldHits(mapped, options) # {}
        THEN <<options[First(FoldHits(mapped, options))], TRUE>>
        ELSE IF Cardinality(matches) = 1
        THEN <<options[First(matches)], TRUE>>
        ELSE << <<>>, FALSE >>

Digits == <<"0", "1", "2", "3", "4", "5", "6", "7", "8", "9">>

IsDigit(c) == \E i \in 1..10 : Digits[i] = c

DigitVal(c) == (CHOOSE i \in 1..10 : Digits[i] = c) - 1

RECURSIVE DigitsVal(_)
DigitsVal(s) == IF s = <<>> THEN 0 ELSE DigitsVal(SubSeq(s, 1, Len(s) - 1)) * 10 + DigitVal(s[Len(s)])

\* main.go parseIndex: <<index, ok>>, the index counted from 0.
parseIndex(value, max) ==
    IF value = <<>> THEN <<0, FALSE>>
    ELSE IF \E i \in DOMAIN value : ~IsDigit(value[i]) THEN <<0, FALSE>>
    ELSE IF DigitsVal(value) < 1 \/ DigitsVal(value) > max THEN <<0, FALSE>>
    ELSE <<DigitsVal(value) - 1, TRUE>>

\* The first line of lines that is not blank (selectCity asks again on a
\* blank line); <<>> when standard input ends first.
RECURSIVE FirstAnswer(_)
FirstAnswer(lines) ==
    IF lines = <<>> THEN <<>>
    ELSE IF TrimSpace(Head(lines)) # <<>> THEN TrimSpace(Head(lines))
    ELSE FirstAnswer(Tail(lines))

\* main.go selectCity; lines is what the operator types.
selectCity(options, lines) ==
    IF Len(options) = 0
    THEN IF lines = <<>> THEN <<>> ELSE TrimSpace(Head(lines))
    ELSE LET line == FirstAnswer(lines)
         IN  IF parseIndex(line, Len(options))[2]
             THEN options[parseIndex(line, Len(options))[1] + 1]
             ELSE IF matchCityOption(line, options)[2]
             THEN matchCityOption(line, options)[1]
             ELSE line

\* main.go resolveCity.
resolveCity(prof, options, lines) ==
    IF Len(options) > 0
    THEN IF matchCityOption(prof.PreferredCity, options)[2]
         THEN matchCityOption(prof.PreferredCity, options)[1]
         ELSE IF prof.Address # <<>> /\ matchCityOption(prof.Address[1].City, options)[2]
         THEN matchCityOption(prof.Address[1].City, options)[1]
         ELSE selectCity(options, lines)
    ELSE IF prof.PreferredCity # <<>> THEN prof.PreferredCity
    ELSE IF prof.Address # <<>> /\ prof.Address[1].City # <<>> THEN prof.Address[1].City
    ELSE selectCity(<<>>, lines)

\* What ExtractSelectedCity and ExtractCityOptions read from a cart page.
CityFinds ==
    {[selected |-> Pune, options |-> <<Pune, Mumbai>>],
     [selected |-> <<>>, options |-> <<Pune, Mumbai, NaviMumbai>>],
     [selected |-> <<>>, options |-> <<>>]}

\* What the operator types when asked for a city.
CityLines == {<<<<"2">>>>, <<<<" ">>, <<"b", "o", "m", "b", "a", "y">>>>}

(***************************************************************************)
(* Amounts (parser.go).  A parsed amount is the float64 that               *)
(* strconv.ParseFloat returns: a decimal m / 10^e, an infinity or NaN.     *)
(* Texts with an exponent, a base prefix or an underscore are not among    *)
(* the texts of the model's pages.                                         *)
(***************************************************************************)
Rupee == "₹"

Num(m, e) == [kind |-> "num", m |-> m, e |-> e]

NaN == [kind |-> "nan", m |-> 0, e |-> 0]

Inf(sign) == [kind |-> "inf", m |-> sign, e |-> 0]

RECURSIVE Pow10(_)
Pow10(e) == IF e = 0 THEN 1 ELSE 10 * Pow10(e - 1)

\* a < b on float64 values; every comparison with NaN is false.
Less(a, b) ==
    IF a.kind = "nan" \/ b.kind = "nan" THEN FALSE
    ELSE IF a.kind = "inf" THEN a.m < 0 /\ ~(b.kind = "inf" /\ b.m < 0)
    ELSE IF b.kind = "inf" THEN b.m > 0
    ELSE a.m * Pow10(b.e) < b.m * Pow10(a.e)

Zero == Num(0, 0)

\* a <= 0 on float64 values.
LeqZero(a) == a.kind # "nan" /\ (Less(a, Zero) \/ (a.kind = "num" /\ a.m = 0))

TrimPrefix(s, p) == IF HasPrefix(s, p) THEN SubSeq(s, Len(p) + 1, Len(s)) ELSE s

Remove(s, c) == SelectSeq(s, LAMBDA x : x # c)

\* strconv.ParseFloat(s, 64): <<value, ok>>.
ParseFloat(s) ==
    LET signed == s # <<>> /\ Head(s) \in {"+", "-"}
        sign == IF signed /\ Head(s) = "-" THEN -1 ELSE 1
        body == IF signed THEN Tail(s) ELSE s
        dots == {i \in DOMAIN body : body[i] = "."}
        digits == Remove(body, ".")
        scale == IF dots = {} THEN 0 ELSE Len(body) - First(dots)
    IN  IF ToLower(s) = <<"n", "a", "n">> THEN <<NaN, TRUE>>
        ELSE IF ToLower(body) \in {<<"i", "n", "f">>, <<"i", "n", "f", "i", "n", "i", "t", "y">>} THEN <<Inf(sign), TRUE>>
        ELSE IF digits = <<>> \/ Cardinality(dots) > 1
                \/ \E i \in DOMAIN digits : ~IsDigit(digits[i])
        THEN <<Zero, FALSE>>
        ELSE <<Num(sign * DigitsVal(digits), scale), TRUE>>

ParseINRAmount_keepsSeparators(value) ==
    LET clean == TrimPrefix(TrimSpace(value), <<Rupee>>)
    IN  IF clean = <<>> THEN <<Zero, FALSE>> ELSE ParseFloat(clean)

\* parser.go ParseINRAmount: <<amount, ok>>.
ParseINRAmount(value) ==
    LET clean == Remove(TrimPrefix(TrimSpace(value), <<Rupee>>), ",")
    IN  IF clean = <<>> THEN <<Zero, FALSE>> ELSE ParseFloat(clean)

(***************************************************************************)
(* Payment page.  It is modelled by the text of the .grand-total-sum     *)
(* element, the captures of the Total / Payable / Amount patterns, the    *)
(* capture of the element fallback and the capture of the wallet pattern; *)
(* <<>> stands for no element or no match.                                *)
(***************************************************************************)
GrandTotalTexts ==
    {<<" ">>, <<"₹", "2", "5", "0">>, <<" ", "₹", "1", ",", "2", "5", "0", ".", "5", "0", " ">>, <<"₹", "0", ".", "0", "0">>, <<"-", "5">>, <<"N", "a", "N">>, <<"R", "s", ".", " ", "2", "5", "0">>}

WalletCaptures == {<<>>, <<"1", "0", "0">>, <<"2", "5", "0", ".", "0", "0">>, <<"2", ",", "0", "0", "0">>, <<"1", ".", "2", ".", "3">>}

PaymentPage(g, t, p, a, e, w, c) ==
    [grandTotalSum |-> g, totalMatch |-> t, payableMatch |-> p, amountMatch |-> a,
     elementMatch |-> e, walletMatch |-> w, csrfMatch |-> c, csrfInput |-> ""]

PaymentPages ==
    {PaymentPage(g, <<>>, <<>>, <<>>, <<>>, <<"1", "0", "0">>, "") : g \in GrandTotalTexts}
    \cup {PaymentPage(<<"₹", "2", "5", "0">>, <<"1", "0", "0">>, <<>>, <<>>, <<>>, w, "") : w \in WalletCaptures}
    \cup {PaymentPage(g, t, <<>>, <<"2", "5", "0">>, <<>>, <<"1", "0", "0">>, "tok-pay") :
            g \in {<<>>, <<" ">>}, t \in {<<>>, <<"1", "0", "0">>, <<".">>}}
    \cup {PaymentPage(<<>>, <<>>, p, <<>>, e, <<"2", ",", "0", "0", "0">>, "tok-pay") :
            p \in {<<>>, <<"0">>}, e \in {<<>>, <<"3", "0", "0">>}}

\* parser.go ExtractWalletBalance: <<balance, ok>>.
ExtractWalletBalance(page) ==
    IF page.walletMatch # <<>> THEN <<<<Rupee>> \o page.walletMatch, TRUE>>
    ELSE << <<>>, FALSE >>

\* parser.go ExtractOrderTotal: <<total, ok>>.
ExtractOrderTotal(page) ==
    IF TrimSpace(page.grandTotalSum) # <<>> THEN <<TrimSpace(page.grandTotalSum), TRUE>>
    ELSE IF page.totalMatch # <<>> THEN <<<<Rupee>> \o page.totalMatch, TRUE>>
    ELSE IF page.payableMatch # <<>> THEN <<<<Rupee>> \o page.payableMatch, TRUE>>
    ELSE IF page.amountMatch # <<>> THEN <<<<Rupee>> \o page.amountMatch, TRUE>>
    ELSE IF page.elementMatch # <<>> THEN <<<<Rupee>> \o page.elementMatch, TRUE>>
    ELSE << <<>>, FALSE >>

(***************************************************************************)
(* Profile and address (internal/store, main.go).  A nil pointer is <<>>, *)
(* a pointer to v is <<v>>.                                                *)
(***************************************************************************)
AddressFields ==
    <<"FirstName", "LastName", "Address1", "Address2", "Floor", "NearByLandmark", "City",
      "StateCode", "PostalCode", "Phone", "Latitude", "Longitude">>

Addr(first, last, a1, city, state, postal, country, phone) ==
    [FirstName |-> first, LastName |-> last, Floor |-> <<>>, Address1 |-> a1,
     Address2 |-> <<>>, NearByLandmark |-> <<>>, City |-> city, StateCode |-> state,
     PostalCode |-> postal, Country |-> country, Phone |-> phone,
     Latitude |-> <<>>, Longitude |-> <<>>]

HomeAddress ==
    Addr(<<"A", "s", "h", "a">>, <<"R", "a", "o">>, <<"1", "2", " ", "M", "G", " ", "R", "o", "a", "d">>, Pune, <<"M", "H">>, <<"4", "1", "1", "0", "0", "1">>, <<"I", "N">>, <<"9", "8", "7", "6", "5", "4", "3", "2", "1", "0">>)

\* An address as parseAddressFromText leaves it when the card shows neither a
\* phone number nor a "City, ST" segment; the text quotes a state code.
CardAddress ==
    Addr(<<"R", "a", "v", "i">>, <<"K">>, <<"R", "a", "v", "i", " ", "K", " ", "F", "l", "a", "t", " ", "2", " ", "\\", "b", "K", "A", "\\", "b">>, <<>>, <<>>, <<"5", "6", "0", "1", "0", "3">>, <<"I", "N">>, <<>>)

AddressIsComplete_noCountry(addr) ==
    /\ addr.FirstName # <<>> /\ addr.Address1 # <<>> /\ addr.City # <<>>
    /\ addr.StateCode # <<>> /\ addr.PostalCode # <<>> /\ addr.Phone # <<>>

\* parser.go AddressIsComplete.
AddressIsComplete(addr) ==
    /\ addr.FirstName # <<>> /\ addr.Address1 # <<>> /\ addr.City # <<>>
    /\ addr.StateCode # <<>> /\ addr.PostalCode # <<>> /\ addr.Country # <<>>
    /\ addr.Phone # <<>>

\* main.go addressReadyForLocation.
addressReadyForLocation(addr) ==
    /\ addr.Address1 # <<>> /\ addr.City # <<>> /\ addr.StateCode # <<>>
    /\ addr.PostalCode # <<>> /\ addr.Country # <<>>

\* The matches of the pattern of normalizeStateCode in s, which the raw string
\* literal makes: backslash, b, two capitals, backslash, b.
StateMatches(s) ==
    {i \in 1..(Len(s) - 5) :
        /\ s[i] = "\\" /\ s[i + 1] = "b"
        /\ \E j \in 1..26 : Upper[j] = s[i + 2]
        /\ \E j \in 1..26 : Upper[j] = s[i + 3]
        /\ s[i + 4] = "\\" /\ s[i + 5] = "b"}

\* main.go normalizeStateCode; no match equals "IN", a match being six
\* characters long.
normalizeStateCode(addr) ==
    IF Len(addr.StateCode) = 2 \/ addr.Address1 = <<>> \/ StateMatches(addr.Address1) = {}
    THEN addr
    ELSE [addr EXCEPT !.StateCode =
            SubSeq(addr.Address1, First(StateMatches(addr.Address1)),
                   First(StateMatches(addr.Address1)) + 5)]

\* main.go ensureAddressComplete: every blank field takes the next line the
\* operator types, trimmed (a blank once standard input has ended); the
\* country defaults to IN.
RECURSIVE promptFields(_, _, _)
promptFields(addr, fields, lines) ==
    IF fields = <<>> THEN addr
    ELSE IF addr[Head(fields)] # <<>> THEN promptFields(addr, Tail(fields), lines)
    ELSE promptFields(
            [addr EXCEPT ![Head(fields)] = IF lines = <<>> THEN <<>> ELSE TrimSpace(Head(lines))],
            Tail(fields),
            IF lines = <<>> THEN <<>> ELSE Tail(lines))

ensureAddressComplete(addr, lines) ==
    LET filled == promptFields(addr, AddressFields, lines)
    IN  IF filled.Country = <<>> THEN [filled EXCEPT !.Country = <<"I", "N">>] ELSE filled

\* What the operator types when asked for address fields.
AddressLines ==
    {<<>>,
     <<<<"M", "e", "e", "r", "a">>, <<"S">>, <<"4", " ", "L", "a", "k", "e", " ", "R", "d">>, <<>>, <<>>, <<>>, <<"M", "u", "m", "b", "a", "i">>, <<"M", "H">>, <<"4", "0", "0", "0", "0", "1">>, <<"9", "8", "7", "6", "5", "0", "0", "0", "0", "1">>>>}

\* The candidates ParseAddressCandidates returns for a shipping page.
Candidate(id, addr, isDefault, raw) ==
    [ID |-> id, Address |-> addr, IsDefault |-> isDefault, RawText |-> raw]

CandidateLists ==
    {<<>>,
     <<Candidate("addr-7", HomeAddress, FALSE, <<"A", "s", "h", "a", " ", "R", "a", "o">>)>>,
     <<Candidate("addr-7", HomeAddress, FALSE, <<"A", "s", "h", "a", " ", "R", "a", "o">>),
       Candidate("addr-8", CardAddress, TRUE, <<"R", "a", "v", "i", " ", "K", " ", "d", "e", "f", "a", "u", "l", "t">>)>>,
     <<Candidate("addr-8", CardAddress, FALSE, <<"R", "a", "v", "i", " ", "K">>),
       Candidate("addr-7", HomeAddress, FALSE, <<"A", "s", "h", "a", " ", "R", "a", "o">>)>>}

\* What the operator types when asked to choose an address.
ChoiceLines == {<<<<"2">>>>, <<<<"x">>, <<"0">>, <<" ", "1", " ">>>>}

\* main.go selectAddress; the operator is asked until a line is an index.
\* Every element of ChoiceLines ends with an index, so the case of no lines
\* left is never evaluated.
RECURSIVE chooseCandidate(_, _)
chooseCandidate(candidates, lines) ==
    IF lines = <<>> THEN candidates[1]
    ELSE IF parseIndex(TrimSpace(Head(lines)), Len(candidates))[2]
    THEN candidates[parseIndex(TrimSpace(Head(lines)), Len(candidates))[1] + 1]
    ELSE chooseCandidate(candidates, Tail(lines))

\* selectAddress taking the first candidate whatever is marked.
selectAddress_firstAlways(candidates, lines) == candidates[1]

selectAddress(candidates, lines) ==
    LET defaults == {i \in DOMAIN candidates : candidates[i].IsDefault}
    IN  IF Len(candidates) = 1 THEN candidates[1]
        ELSE IF defaults # {} THEN candidates[First(defaults)]
        ELSE chooseCandidate(candidates, lines)

(***************************************************************************)
(* Shipping page and the checkout requests (parser.go, checkout.go).       *)
(***************************************************************************)
\* parser.go ExtractCSRFToken: <<token, ok>>; the pattern is tried before the
\* input element.
ExtractCSRFToken(page) ==
    IF page.csrfMatch # "" THEN <<page.csrfMatch, TRUE>>
    ELSE IF page.csrfInput # "" THEN <<page.csrfInput, TRUE>>
    ELSE <<"", FALSE>>

HexChars == {"a", "b", "c", "d", "e", "f"}

\* The pattern ^[a-f0-9]{16,}$ of ExtractShipmentUUID.
IsShipmentHex(s) ==
    Len(s) >= 16 /\ \A i \in DOMAIN s : s[i] \in HexChars \/ IsDigit(s[i])

\* The texts of the markup that follow each "shipmentUUID" and its separators
\* ([^"'\w]*["']?), in the order of the markup: what ([a-f0-9]{16,}) takes of
\* a text is its longest prefix of lowercase hex characters.
RECURSIVE HexPrefix(_)
HexPrefix(s) ==
    IF s = <<>> \/ ~(Head(s) \in HexChars \/ IsDigit(Head(s))) THEN <<>>
    ELSE <<Head(s)>> \o HexPrefix(Tail(s))

\* shipmentUUIDRegex.FindStringSubmatch: the capture of the leftmost match,
\* <<>> without a match.
shipmentUUIDRegex(tails) ==
    LET hits == {i \in DOMAIN tails : Len(HexPrefix(tails[i])) >= 16}
    IN  IF hits = {} THEN <<>> ELSE HexPrefix(tails[First(hits)])

\* ExtractShipmentUUID returning the value of the element as it stands.
ExtractShipmentUUID_unvalidated(page) ==
    IF page.shipInput # <<>> THEN <<TrimSpace(page.shipInput), TRUE>>
    ELSE IF page.shipData # <<>> THEN <<TrimSpace(page.shipData), TRUE>>
    ELSE IF shipmentUUIDRegex(page.shipMatch) # <<>>
    THEN <<shipmentUUIDRegex(page.shipMatch), TRUE>>
    ELSE << <<>>, FALSE >>

\* parser.go ExtractShipmentUUID: <<uuid, ok>>.
ExtractShipmentUUID(page) ==
    IF page.shipInput # <<>> /\ IsShipmentHex(TrimSpace(page.shipInput))
    THEN <<TrimSpace(page.shipInput), TRUE>>
    ELSE IF page.shipData # <<>> /\ IsShipmentHex(TrimSpace(page.shipData))
    THEN <<TrimSpace(page.shipData), TRUE>>
    ELSE IF shipmentUUIDRegex(page.shipMatch) # <<>>
    THEN <<shipmentUUIDRegex(page.shipMatch), TRUE>>
    ELSE << <<>>, FALSE >>

\* parser.go ParseAddressCandidates.
ParseAddressCandidates(page) == page.candidates

ShipmentA == <<"0", "1", "2", "3", "4", "5", "6", "7", "8", "9", "a", "b", "c", "d", "e", "f">>

ShipmentB == <<"f", "e", "d", "c", "b", "a", "9", "8", "7", "6", "5", "4", "3", "2", "1", "0", "0">>

\* What the extractors find in a shipping page, candidates apart.
ShipFinds ==
    {[csrfMatch |-> "tok-ship", csrfInput |-> "tok-input", shipInput |-> <<" ", "0", "1", "2", "3", "4", "5", "6", "7", "8", "9", "a", "b", "c", "d", "e", "f", " ">>,
      shipData |-> ShipmentB, shipMatch |-> <<>>],
     [csrfMatch |-> "", csrfInput |-> "tok-input", shipInput |-> <<"a", "d", "d", "r", "-", "7">>,
      shipData |-> <<>>, shipMatch |-> <<ShipmentB>>],
     [csrfMatch |-> "", csrfInput |-> "", shipInput |-> ShipmentA,
      shipData |-> <<>>, shipMatch |-> <<>>],
     [csrfMatch |-> "tok-ship", csrfInput |-> "", shipInput |-> <<"0", "1", "2", "3", "4", "5", "6", "7", "8", "9", "A", "B", "C", "D", "E", "F">>,
      shipData |-> <<>>, shipMatch |-> <<>>]}

ShippingPages ==
    {[csrfMatch |-> f.csrfMatch, csrfInput |-> f.csrfInput, shipInput |-> f.shipInput,
      shipData |-> f.shipData, shipMatch |-> f.shipMatch, candidates |-> c] :
        f \in ShipFinds, c \in CandidateLists}

\* checkout.go SubmitShipping.
SubmitShipping_anyStatus(shipmentUUID, csrfToken, resp) ==
    IF shipmentUUID = <<>> \/ csrfToken = ""
    THEN [err |-> "missing shipment UUID or CSRF token", issued |-> FALSE]
    ELSE IF resp.status = 0 THEN [err |-> "transport error", issued |-> TRUE]
    ELSE [err |-> "", issued |-> TRUE]

SubmitShipping(shipmentUUID, csrfToken, resp) ==
    IF shipmentUUID = <<>> \/ csrfToken = ""
    THEN [err |-> "missing shipment UUID or CSRF token", issued |-> FALSE]
    ELSE IF resp.status = 0 THEN [err |-> "transport error", issued |-> TRUE]
    ELSE IF resp.status >= 400 THEN [err |-> "submit shipping failed", issued |-> TRUE]
    ELSE [err |-> "", issued |-> TRUE]

\* SubmitPayment reporting a refused request as session loss.
SubmitPayment_authChecked(shipmentUUID, csrfToken, resp) ==
    IF shipmentUUID = <<>> \/ csrfToken = ""
    THEN [err |-> "missing shipment UUID or CSRF token", issued |-> FALSE]
    ELSE IF resp.status = 0 THEN [err |-> "transport error", issued |-> TRUE]
    ELSE IF resp.status >= 400 THEN [err |-> "ErrNotAuthenticated", issued |-> TRUE]
    ELSE [err |-> "", issued |-> TRUE]

\* checkout.go SubmitPayment.
SubmitPayment(shipmentUUID, csrfToken, resp) ==
    IF shipmentUUID = <<>> \/ csrfToken = ""
    THEN [err |-> "missing shipment UUID or CSRF token", issued |-> FALSE]
    ELSE IF resp.status = 0 THEN [err |-> "transport error", issued |-> TRUE]
    ELSE IF resp.status >= 400 THEN [err |-> "submit payment failed", issued |-> TRUE]
    ELSE [err |-> "", issued |-> TRUE]

\* The capture of orderIDRegex, orderID=([^&]+), in location; <<>> for no match.
OrderIDKey == <<"o", "r", "d", "e", "r", "I", "D", "=">>

OrderIDStarts(location) ==
    {i \in 1..(Len(location) - Len(OrderIDKey)) :
        /\ SubSeq(location, i, i + Len(OrderIDKey) - 1) = OrderIDKey
        /\ location[i + Len(OrderIDKey)] # "&"}

RECURSIVE UpToAmp(_)
UpToAmp(s) == IF s = <<>> \/ Head(s) = "&" THEN <<>> ELSE <<Head(s)>> \o UpToAmp(Tail(s))

orderIDRegex(location) ==
    IF OrderIDStarts(location) = {} THEN <<>>
    ELSE UpToAmp(SubSeq(location, First(OrderIDStarts(location)) + Len(OrderIDKey),
                        Len(location)))

\* The answers to the place-order request; the client does not follow a
\* redirect, so the answer is the first response: its status and Location.
PlaceAnswers ==
    {[status |-> 302, location |-> <<"/", "o", "r", "d", "e", "r", "p", "l", "a", "c", "e", "d", "?", "o", "r", "d", "e", "r", "I", "D", "=", "B", "I", "S", "1", "0", "0", "1", "&", "t", "o", "k", "e", "n", "=", "x">>],
     [status |-> 303, location |-> <<"h", "t", "t", "p", "s", ":", "/", "/", "w", "w", "w", ".", "b", "i", "s", "l", "e", "r", "i", ".", "c", "o", "m", "/", "o", "r", "d", "e", "r", "p", "l", "a", "c", "e", "d", "?", "x", "=", "1", "&", "o", "r", "d", "e", "r", "I", "D", "=", "B", "I", "S", "1", "0", "0", "2">>],
     [status |-> 302, location |-> <<"/", "o", "r", "d", "e", "r", "p", "l", "a", "c", "e", "d", "?", "o", "r", "d", "e", "r", "I", "D", "=", "&", "t", "o", "k", "e", "n", "=", "x">>],
     [status |-> 303, location |-> <<"/", "o", "r", "d", "e", "r", "p", "l", "a", "c", "e", "d">>],
     [status |-> 302, location |-> <<"/", "m", "y", "c", "a", "r", "t", "?", "o", "r", "d", "e", "r", "I", "D", "=", "B", "I", "S", "1", "0", "0", "3">>],
     [status |-> 302, location |-> <<>>],
     [status |-> 301, location |-> <<"/", "o", "r", "d", "e", "r", "p", "l", "a", "c", "e", "d", "?", "o", "r", "d", "e", "r", "I", "D", "=", "B", "I", "S", "1", "0", "0", "4">>],
     [status |-> 200, location |-> <<"/", "o", "r", "d", "e", "r", "p", "l", "a", "c", "e", "d", "?", "o", "r", "d", "e", "r", "I", "D", "=", "B", "I", "S", "1", "0", "0", "5">>],
     [status |-> 500, location |-> <<>>],
     [status |-> 0, location |-> <<>>]}

\* PlaceOrder that does not look at where the redirect leads.
PlaceOrder_anyLocation(resp) ==
    IF resp.status = 0 THEN [orderID |-> <<>>, err |-> "transport error"]
    ELSE IF resp.status # 302 /\ resp.status # 303
    THEN [orderID |-> <<>>, err |-> "place order failed"]
    ELSE IF resp.location = <<>>
    THEN [orderID |-> <<>>, err |-> "no redirect location from wallet place order"]
    ELSE [orderID |-> orderIDRegex(resp.location), err |-> ""]

\* checkout.go PlaceOrder: the order ID and the error.
PlaceOrder(resp) ==
    IF resp.status = 0 THEN [orderID |-> <<>>, err |-> "transport error"]
    ELSE IF resp.status # 302 /\ resp.status # 303
    THEN [orderID |-> <<>>, err |-> "place order failed"]
    ELSE IF resp.location = <<>>
    THEN [orderID |-> <<>>, err |-> "no redirect location from wallet place order"]
    ELSE IF ~Contains(resp.location, <<"/", "o", "r", "d", "e", "r", "p", "l", "a", "c", "e", "d">>)
    THEN [orderID |-> <<>>, err |-> "unexpected redirect location"]
    ELSE [orderID |-> orderIDRegex(resp.location), err |-> ""]

\* The distinct results of fetching the cart page and a checkout page.
CartFetches == {FetchCartPage(a) : a \in PageAnswers(CartPath)}

CheckoutFetches == {FetchShippingPage(a) : a \in PageAnswers(CheckoutPath)}

\* client.go SubmitCheckoutForm.
SubmitCheckoutForm(action, resp) ==
    IF TrimSpace(action) = <<>> THEN "checkout form action missing"
    ELSE IF resp.status = 0 THEN "transport error"
    ELSE IF resp.status >= 400 THEN "HTTPStatusError"
    ELSE ""

\* BeginCheckout trying the first candidate only.
tryCandidates_firstOnly(candidates, resps) ==
    IF candidates = <<>> THEN "checkout form not found"
    ELSE IF SubmitCheckoutForm(Head(candidates), Head(resps)) = "" THEN ""
    ELSE "checkout form not found"

\* The loop of BeginCheckout over the candidates; resps[i] answers the i-th.
RECURSIVE tryCandidates(_, _)
tryCandidates(candidates, resps) ==
    IF candidates = <<>> THEN "checkout form not found"
    ELSE IF SubmitCheckoutForm(Head(candidates), Head(resps)) = "" THEN ""
    ELSE tryCandidates(Tail(candidates), Tail(resps))

\* client.go BeginCheckout.  a.fetch is the result of the cart fetch, a.form
\* the action of the form ExtractCheckoutForm finds (<<>> for its error),
\* a.candidates the actions of ExtractCheckoutCandidates.
BeginCheckout(a) ==
    IF a.fetch.err # "" THEN a.fetch.err
    ELSE IF a.form = <<>> THEN tryCandidates(a.candidates, a.resps)
    ELSE SubmitCheckoutForm(a.form[1], a.resps[1])

CartFetched == [err |-> "", status |-> 0, gets |-> 1]

\* The candidates BeginCheckout submits, in the order it submits them.
RECURSIVE candidateSubmits(_, _)
candidateSubmits(candidates, resps) ==
    IF candidates = <<>> THEN <<>>
    ELSE IF SubmitCheckoutForm(Head(candidates), Head(resps)) = "" THEN <<Head(candidates)>>
    ELSE <<Head(candidates)>> \o candidateSubmits(Tail(candidates), Tail(resps))

beginSubmits(a) ==
    IF a.fetch.err # "" THEN <<>>
    ELSE IF a.form = <<>> THEN candidateSubmits(a.candidates, a.resps)
    ELSE <<a.form[1]>>

BeginAnswers ==
    {[fetch |-> CartFetched, form |-> <<<<"/", "c", "h", "e", "c", "k", "o", "u", "t", "-", "b", "e", "g", "i", "n">>>>, candidates |-> <<>>,
      resps |-> <<Resp(200, <<>>)>>],
     [fetch |-> CartFetched, form |-> <<<<"/", "c", "h", "e", "c", "k", "o", "u", "t", "-", "b", "e", "g", "i", "n">>>>, candidates |-> <<>>,
      resps |-> <<Resp(500, <<>>)>>],
     [fetch |-> CartFetched, form |-> <<>>, candidates |-> <<<<" ">>, <<"/", "c", "h", "e", "c", "k", "o", "u", "t">>, <<"/", "c", "a", "r", "t", "/", "c", "h", "e", "c", "k", "o", "u", "t">>>>,
      resps |-> <<NetErr, Resp(404, <<>>), Resp(200, <<>>)>>],
     [fetch |-> CartFetched, form |-> <<>>, candidates |-> <<>>, resps |-> <<>>],
     [fetch |-> [err |-> "ErrNotAuthenticated", status |-> 0, gets |-> 1], form |-> <<>>,
      candidates |-> <<>>, resps |-> <<>>]}

\* client.go SetSavedAddressLocation; token is the csrf token of the JSON body
\* of a failed first answer ("" for none).
SetSavedAddressLocation(addressID, resp, token, retryResp) ==
    IF addressID = "" THEN "address ID is required"
    ELSE IF resp.status = 0 THEN "transport error"
    ELSE IF resp.status < 400 THEN ""
    ELSE IF token = "" THEN "HTTPStatusError"
    ELSE IF retryResp.status = 0 THEN "transport error"
    ELSE IF retryResp.status >= 400 THEN "HTTPStatusError"
    ELSE ""

(***************************************************************************)
(* Profiles on disk when the command starts (internal/store).             *)
(***************************************************************************)
Now == 2

OldSession == <<"old-session">>

NewSession == <<"new-session">>

Profile(cookies, addressID, address, city, phone, lastOrder, source) ==
    [Name |-> "default", Cookies |-> cookies, AddressID |-> addressID, Address |-> address,
     PreferredCity |-> city, PhoneNumber |-> phone, LastLogin |-> 1,
     LastOrder |-> lastOrder, AddressSource |-> source]

OrderInfo(id, at) == [OrderID |-> id, PlacedAt |-> at, TotalPrice |-> ""]

Profiles ==
    {Profile(OldSession, "addr-1", <<HomeAddress>>, Pune, "9876543210",
             <<OrderInfo(<<"B", "I", "S", "0", "9", "0", "0">>, 1)>>, "shipping-page"),
     Profile(OldSession, "", <<>>, <<>>, "", <<>>, ""),
     Profile(<<>>, "", <<>>, <<>>, "9876543210", <<>>, "")}

(***************************************************************************)
(* Consent-gated reauthentication of the order command.                    *)
(***************************************************************************)
\* The window of the confirmation prompt of the order command, in seconds.
promptWindow == 10

\* What the operator does at the confirmation prompt: a line typed after
\* `at' seconds, or no line at all.
PromptInputs ==
    {[text |-> t, arrives |-> TRUE, at |-> a] :
        t \in {<<"y">>, <<"y", "e", "s">>, <<"Y">>, <<"Y", "E", "S">>, <<"Y", "e", "s">>, <<"n">>, <<"n", "o">>, <<>>, <<"y", "e", "s", "s">>, <<"o", "k">>},
        a \in {0, promptWindow - 1}}
    \cup {[text |-> <<"y">>, arrives |-> TRUE, at |-> promptWindow + 1],
          [text |-> <<>>, arrives |-> FALSE, at |-> 0]}

\* confirmLoginPrompt that waits for the line however late it comes.
confirmLoginPrompt_noTimer(input, timeout) ==
    IF ~input.arrives
    THEN [input |-> input, accepted |-> FALSE, timedOut |-> TRUE, err |-> ""]
    ELSE [input |-> input, accepted |-> ToLower(input.text) \in {<<"y">>, <<"y", "e", "s">>},
          timedOut |-> FALSE, err |-> ""]

\* confirmLoginPrompt that takes an empty line and every line starting with
\* y as consent.
confirmLoginPrompt_lenient(input, timeout) ==
    IF ~input.arrives \/ input.at > timeout
    THEN [input |-> input, accepted |-> FALSE, timedOut |-> TRUE, err |-> ""]
    ELSE [input |-> input,
          accepted |-> input.text = <<>> \/ HasPrefix(ToLower(input.text), <<"y">>),
          timedOut |-> FALSE, err |-> ""]

\* confirmLoginPrompt(r, w, timeout): accepted, timedOut and the error.
confirmLoginPrompt(input, timeout) ==
    IF ~input.arrives \/ input.at > timeout
    THEN [input |-> input, accepted |-> FALSE, timedOut |-> TRUE, err |-> ""]
    ELSE [input |-> input, accepted |-> ToLower(input.text) \in {<<"y">>, <<"y", "e", "s">>},
          timedOut |-> FALSE, err |-> ""]

\* What the OTP login returns: the new cookies, or an error.
LoginOutcomes ==
    {[cookies |-> NewSession, err |-> ""], [cookies |-> <<>>, err |-> "otp login failed"]}

\* refreshSessionForOrder with a profile that keeps only what a login needs.
refreshSessionForOrder_fresh(prof, login) ==
    IF login.err # "" THEN [profile |-> prof, err |-> login.err, phone |-> prof.PhoneNumber]
    ELSE [profile |-> Profile(login.cookies, "", <<>>, <<>>, prof.PhoneNumber, <<>>, ""),
          err |-> "", phone |-> prof.PhoneNumber]

\* refreshSessionForOrder on a profile with a saved phone number: the phone
\* number otpLoginFn is called with, the profile it leaves and its error.
refreshSessionForOrder(prof, login) ==
    IF login.err # "" THEN [profile |-> prof, err |-> login.err, phone |-> prof.PhoneNumber]
    ELSE [profile |-> [prof EXCEPT !.Cookies = login.cookies, !.LastLogin = Now],
          err |-> "", phone |-> prof.PhoneNumber]

(***************************************************************************)
(* The order command (main.go runOrder).                                   *)
(***************************************************************************)
\* config.go DefaultConfig: Defaults.OrderQuantity.
DefaultOrderQuantity == 2

\* main.go confirmCartQuantity: maxAttempts.
confirmMaxAttempts == 4

NoCart ==
    [items |-> <<>>, cartCount |-> NoMatch, itemCount |-> NoMatch, count |-> <<0, FALSE>>,
     target |-> <<"", 0, FALSE>>, read |-> FALSE, city |-> <<>>]

NoShipping == [csrfToken |-> "", shipmentUUID |-> <<>>, candidates |-> <<>>]

NoPayment ==
    [total |-> << <<>>, FALSE >>, balance |-> << <<>>, FALSE >>, csrf |-> "", read |-> FALSE]

NoResponse == [status |-> 0, location |-> <<>>, sent |-> FALSE, after |-> <<>>]

NoInput == [text |-> <<>>, arrives |-> FALSE, at |-> 0]

NoAnswer == [input |-> NoInput, accepted |-> FALSE, timedOut |-> FALSE, err |-> ""]

NoneSent ==
    [AddProduct |-> 0, UpdateQuantity |-> 0, SetSavedAddressLocation |-> 0,
     SubmitPayment |-> 0, PlaceOrder |-> 0, SetCityLocation |-> 0,
     update |-> <<>>, polled |-> <<>>, location |-> <<>>]

\* The OTP login, Logout and the function applications at rest.
NoLogin ==
    [pc |-> "idle", phone |-> "", entered |-> <<>>, sends |-> 0, verifies |-> 0,
     resends |-> 0, cookies |-> <<>>, err |-> ""]

NoLogout == [pc |-> "idle", link |-> <<>>, next |-> 1, hits |-> <<>>, err |-> ""]

NoCall == [fn |-> "", arg |-> <<>>, val |-> <<>>, done |-> FALSE]

\* No error, and an order run that has not started: its deadline not fired,
\* no stage executed.
NoErr == [kind |-> "", is |-> FALSE]

WaitStages ==
    {"verify", "setCity", "update", "add", "jars", "savedAddr", "begin", "shipFetch",
     "submitShipping", "payFetch", "submitPayment", "place"}

NoRun ==
    [pc |-> "idle", phase |-> "", n |-> 0, poll |-> 0, begins |-> 0, cands |-> FALSE,
     lastErr |-> NoErr, fired |-> FALSE, hit |-> "", err |-> NoErr,
     times |-> [s \in WaitStages |-> 0]]

\* auth login not started.
NoAuth ==
    [pc |-> "idle", name |-> <<>>, disk |-> <<>>, current |-> <<>>, existing |-> <<>>,
     created |-> FALSE, phone |-> <<>>, cookies |-> <<>>, built |-> <<>>, err |-> ""]

\* No answer yet to VerifyAuthenticated, SubmitShipping and SubmitPayment.
NoStages == [session |-> <<>>, shipping |-> <<>>, payment |-> <<>>]

flags == <<quantity, returnJars, allowExtra>>

consent == <<prompts, answer, reauths, retriesLeft>>

checkout == <<shipping, payment, beginErr, placed, orderID, stages>>

\* What the order command does not touch.
others == <<otpLogin, logout, call, run, auth>>

Init ==
    /\ pc = "start"
    /\ attempt = 0
    /\ result = ""
    /\ errItems = <<>>
    /\ quantity = 0
    /\ returnJars = -1
    /\ allowExtra = FALSE
    /\ profileFile \in Profiles
    /\ profile = profileFile
    /\ cart = NoCart
    /\ poll = 0
    /\ shipping = NoShipping
    /\ payment = NoPayment
    /\ beginErr = ""
    /\ sent = NoneSent
    /\ placed = NoResponse
    /\ orderID = <<>>
    /\ prompts = 0
    /\ answer = NoAnswer
    /\ reauths = 0
    /\ retriesLeft = 0
    /\ otpLogin = NoLogin
    /\ logout = NoLogout
    /\ call = NoCall
    /\ run = NoRun
    /\ auth = NoAuth
    /\ stages = NoStages

\* Fail without the guard of one reauthentication retry.
Fail_unguarded(err) ==
    IF err = "ErrNotAuthenticated" /\ retriesLeft >= 0
    THEN pc' = "prompt" /\ result' = ""
    ELSE pc' = "done" /\ result' = err

\* A run of the order sequence returns err: session loss goes to the
\* confirmation prompt while a retry is left, every other error ends the
\* command.
Fail(err) ==
    IF err = "ErrNotAuthenticated" /\ retriesLeft > 0
    THEN pc' = "prompt" /\ result' = ""
    ELSE pc' = "done" /\ result' = err

Goto(stage) == pc' = stage /\ result' = ""

Count(op) == [sent EXCEPT ![op] = @ + 1]

\* An UpdateQuantity request that carries no uuid and no quantity.
Updated_countOnly(uuid, qty) == Count("UpdateQuantity")

\* An UpdateQuantity request goes out: its query carries the uuid of the
\* line and the quantity.
Updated(uuid, qty) ==
    [sent EXCEPT !.UpdateQuantity = @ + 1, !.update = <<uuid, qty>>]

\* store.SaveProfile: the file takes the profile unless the write fails.
SaveProfile(prof, written) == IF written THEN prof ELSE profileFile

\* runOrder, lines 364-415: flags, profile and defaults.
Start(qty, ret, extra) ==
    /\ pc = "start"
    /\ LET q == IF qty = 0 THEN DefaultOrderQuantity ELSE qty
           r == IF ret < 0 THEN q ELSE ret
       IN  IF Len(profile.Cookies) = 0
           THEN /\ pc' = "done" /\ result' = "no cookies in profile"
                /\ UNCHANGED <<flags, attempt>>
           ELSE IF q <= 0
           THEN /\ pc' = "done" /\ result' = "quantity must be a positive number"
                /\ quantity' = q
                /\ UNCHANGED <<returnJars, allowExtra, attempt>>
           ELSE IF r > q
           THEN /\ pc' = "done" /\ result' = "return jars cannot exceed order quantity"
                /\ quantity' = q /\ returnJars' = r
                /\ UNCHANGED <<allowExtra, attempt>>
           ELSE /\ pc' = "verify" /\ result' = ""
                /\ quantity' = q /\ returnJars' = r /\ allowExtra' = extra
                /\ attempt' = 1
    /\ UNCHANGED <<errItems, profile, profileFile, cart, poll, checkout, sent, consent>>
    /\ UNCHANGED others

\* runOrder, lines 417-420.
Verify(ans) ==
    /\ pc = "verify"
    /\ IF VerifyAuthenticated(ans) = "" THEN Goto("cart") ELSE Fail(VerifyAuthenticated(ans))
    /\ stages' = [stages EXCEPT !.session = <<ans>>]
    /\ UNCHANGED <<attempt, errItems, flags, profile, profileFile, cart, poll, shipping,
                   payment, beginErr, placed, orderID, sent, consent>>
    /\ UNCHANGED others

\* runOrder, lines 422-424 and 461-466: the cart page is fetched.
FetchCart(r) ==
    /\ pc = "cart"
    /\ IF r.err = "" THEN Goto("city")
       ELSE IF r.err = "ErrNotAuthenticated" THEN Fail(r.err)
       ELSE Goto("add")
    /\ UNCHANGED <<attempt, errItems, flags, profile, profileFile, cart, poll, checkout,
                   sent, consent>>
    /\ UNCHANGED others

\* A SetCityLocation request goes out with the city and is answered.
Located(city, err) ==
    [sent EXCEPT !.SetCityLocation = @ + 1, !.location = <<[city |-> city, err |-> err]>>]

\* The profile remembering the city before the request is answered.
cityRemembered_beforeAnswer(prof, city, err) == [prof EXCEPT !.PreferredCity = city]

\* ensureCityLocation, lines 1089-1092: the profile remembers the city once
\* SetCityLocation has succeeded.
cityRemembered(prof, city, err) ==
    IF err = "" THEN [prof EXCEPT !.PreferredCity = city] ELSE prof

\* runOrder, lines 425-430: ensureCityLocation.  The loop of selectCity asks
\* until a line is not blank: with options on the page the step completes
\* only when the operator gives such a line.  cart keeps the city the page
\* shows as selected and the city resolved.
EnsureCity(cf, lines, resp, written, r) ==
    /\ pc = "city"
    /\ LET city == IF cf.selected # <<>> THEN <<>>
                   ELSE resolveCity(profile, cf.options, lines)
           set == SetCityLocation(city, resp)
       IN  /\ cart' = [NoCart EXCEPT !.city = <<[selected |-> cf.selected, resolved |-> city]>>]
           /\ IF cf.selected # <<>> \/ (Len(cf.options) = 0 /\ city = <<>>)
              THEN Goto("reconcile") /\ UNCHANGED <<profile, profileFile, sent>>
              ELSE /\ city # <<>>
                   /\ sent' = IF set.issued THEN Located(city, set.err) ELSE sent
                   /\ profile' = cityRemembered(profile, city, set.err)
                   /\ IF set.err # ""
                      THEN Fail(set.err) /\ UNCHANGED profileFile
                      ELSE /\ profileFile' = SaveProfile(profile', written)
                           /\ IF r.err # "" THEN Fail(r.err) ELSE Goto("reconcile")
    /\ UNCHANGED <<attempt, errItems, flags, poll, checkout, consent>>
    /\ UNCHANGED others

\* What runOrder and confirmCartQuantity read from a cart page.
CartView(page) ==
    [items |-> ExtractCartItems(page), cartCount |-> page.cartCount,
     itemCount |-> page.itemCount, count |-> ExtractCartCount(page),
     target |-> ExtractCartItem(page, productID20L), read |-> TRUE, city |-> <<>>]

\* The cart pages confirmCartQuantity is answered with.
PollPages == {CartPage(s, << <<>>, <<>> >>, c) : s \in LineSeqs(1), c \in CountFinds}

\* runOrder, lines 453-459 and 466-472: AddProduct, then confirmCartQuantity.
AddTarget(resp) ==
    /\ sent' = IF AddProduct(quantity, resp).issued THEN Count("AddProduct") ELSE sent
    /\ IF AddProduct(quantity, resp).err # ""
       THEN Fail(AddProduct(quantity, resp).err) /\ poll' = 0
       ELSE Goto("confirm") /\ poll' = 1

\* runOrder, lines 431-460: the cart is reconciled.
Reconcile(page) ==
    /\ pc = "reconcile"
    /\ cart' = CartView(page)
    /\ LET items == ExtractCartItems(page)
           count == ExtractCartCount(page)
           extraItems == filterExtraItems(items, productID20L)
           found == ExtractCartItem(page, productID20L)
       IN  IF count[2] /\ count[1] > 0 /\ Len(items) = 0
           THEN Fail("unable to parse cart items") /\ UNCHANGED <<errItems, sent, poll>>
           ELSE IF Len(extraItems) > 0 /\ ~allowExtra
           THEN /\ Fail("cart contains other items")
                /\ errItems' = extraItems
                /\ UNCHANGED <<sent, poll>>
           ELSE IF found[3] /\ found[1] # ""
           THEN IF found[2] # quantity
                THEN \E resp \in Responses :
                        /\ sent' = Updated(found[1], quantity)
                        /\ IF UpdateQuantity(resp) # "" THEN Fail(UpdateQuantity(resp))
                           ELSE Goto("jars")
                        /\ UNCHANGED <<errItems, poll>>
                ELSE Goto("jars") /\ UNCHANGED <<errItems, sent, poll>>
           ELSE IF Len(items) > 0 /\ ~allowExtra
           THEN Fail("cart is not empty") /\ UNCHANGED <<errItems, sent, poll>>
           ELSE \E resp \in Responses : AddTarget(resp) /\ UNCHANGED errItems
    /\ UNCHANGED <<attempt, flags, profile, profileFile, checkout, consent>>
    /\ UNCHANGED others

\* runOrder, lines 465-472: the cart could not be fetched.
AddUnseen(resp) ==
    /\ pc = "add"
    /\ AddTarget(resp)
    /\ UNCHANGED <<attempt, errItems, flags, profile, profileFile, cart, checkout, consent>>
    /\ UNCHANGED others

\* confirmCartQuantity with one poll more.
NextPoll_fivePolls ==
    IF poll <= confirmMaxAttempts
    THEN Goto("confirm") /\ poll' = poll + 1
    ELSE Fail("unable to confirm cart quantity after add") /\ poll' = 0

\* The end of one iteration of confirmCartQuantity that did not return.
NextPoll ==
    IF poll < confirmMaxAttempts
    THEN Goto("confirm") /\ poll' = poll + 1
    ELSE Fail("unable to confirm cart quantity after add") /\ poll' = 0

\* What a poll of confirmCartQuantity read of the target line is kept with
\* the requests of the stage.
Polled(s, found) == [s EXCEPT !.polled = found]

\* main.go confirmCartQuantity: one iteration of its loop.  The page runOrder
\* read is out of scope in confirmCartQuantity.
ConfirmPoll(r, pages) ==
    /\ pc = "confirm"
    /\ IF r.err = "ErrNotAuthenticated"
       THEN Fail(r.err) /\ poll' = 0 /\ sent' = Polled(sent, <<>>) /\ UNCHANGED errItems
       ELSE IF r.err # "" THEN NextPoll /\ sent' = Polled(sent, <<>>) /\ UNCHANGED errItems
       ELSE \E page \in pages :
            LET items == ExtractCartItems(page)
                count == ExtractCartCount(page)
                extraItems == filterExtraItems(items, productID20L)
                found == ExtractCartItem(page, productID20L)
            IN  IF count[2] /\ count[1] > 0 /\ Len(items) = 0
                THEN NextPoll /\ sent' = Polled(sent, <<>>) /\ UNCHANGED errItems
                ELSE IF Len(extraItems) > 0 /\ ~allowExtra
                THEN /\ Fail("cart contains other items") /\ poll' = 0
                     /\ errItems' = extraItems
                     /\ sent' = Polled(sent, <<found>>)
                ELSE IF found[3] /\ found[1] # ""
                THEN IF found[2] = 0
                     THEN \E resp \in Responses :
                            IF UpdateQuantity(resp) = ""
                            THEN /\ sent' = Polled(Updated(found[1], quantity), <<found>>)
                                 /\ Goto("jars") /\ poll' = 0
                                 /\ UNCHANGED errItems
                            ELSE IF quantity = 0
                            THEN /\ sent' = Polled(Updated(found[1], quantity), <<found>>)
                                 /\ Goto("jars") /\ poll' = 0
                                 /\ UNCHANGED errItems
                            ELSE \E again \in Responses :
                                    /\ sent' = Polled([Updated(found[1], quantity) EXCEPT
                                                          !.UpdateQuantity = @ + 1], <<found>>)
                                    /\ NextPoll
                                    /\ UNCHANGED errItems
                     ELSE IF found[2] = quantity
                     THEN /\ Goto("jars") /\ poll' = 0
                          /\ sent' = Polled(sent, <<found>>) /\ UNCHANGED errItems
                     ELSE \E resp \in Responses :
                            /\ sent' = Polled(Updated(found[1], quantity), <<found>>)
                            /\ NextPoll
                            /\ UNCHANGED errItems
                ELSE NextPoll /\ sent' = Polled(sent, <<found>>) /\ UNCHANGED errItems
    /\ cart' = NoCart
    /\ UNCHANGED <<attempt, flags, profile, profileFile, checkout, consent>>
    /\ UNCHANGED others

\* runOrder, lines 474-484: the return jars are set.  The cart is prepared:
\* the page read and the count of the requests that prepared it are dropped.
SetJars(resp) ==
    /\ pc = "jars"
    /\ IF UpdateJarQuantity(returnJars, resp).err # ""
       THEN Fail(UpdateJarQuantity(returnJars, resp).err)
       ELSE Goto("savedAddr")
    /\ cart' = NoCart
    /\ sent' = NoneSent
    /\ UNCHANGED <<attempt, errItems, flags, profile, profileFile, poll, checkout, consent>>
    /\ UNCHANGED others

\* runOrder, lines 486-512: the saved address is sent as the location; an
\* error is only logged.
SavedAddress(resp, token, retryResp) ==
    /\ pc = "savedAddr"
    /\ Goto("begin")
    /\ IF profile.Address # <<>> /\ profile.AddressID # ""
       THEN LET saved == profile.Address[1]
                moved == IF saved.City = <<>>
                            \/ (profile.PreferredCity # <<>>
                                /\ ~EqualFold(saved.City, profile.PreferredCity))
                         THEN [saved EXCEPT !.City = profile.PreferredCity]
                         ELSE saved
                coded == normalizeStateCode(moved)
                addr == IF coded.Country = <<>> THEN [coded EXCEPT !.Country = <<"I", "N">>]
                        ELSE coded
            IN  sent' = IF addressReadyForLocation(addr)
                           /\ SetSavedAddressLocation(profile.AddressID, resp, token, retryResp)
                                \in {"", "transport error", "HTTPStatusError"}
                        THEN Count("SetSavedAddressLocation")
                        ELSE sent
       ELSE UNCHANGED sent
    /\ UNCHANGED <<attempt, errItems, flags, profile, profileFile, cart, poll, checkout,
                   consent>>
    /\ UNCHANGED others

\* runOrder, lines 514-535: at most two attempts of BeginCheckout.
Begin(first, second) ==
    /\ pc = "begin"
    /\ beginErr' = IF BeginCheckout(first) = "" THEN "" ELSE BeginCheckout(second)
    /\ Goto("fetchShipping")
    /\ UNCHANGED <<attempt, errItems, flags, profile, profileFile, cart, poll, shipping,
                   payment, placed, orderID, stages, sent, consent>>
    /\ UNCHANGED others

\* runOrder, lines 537-553: the shipping page is fetched, once more after a
\* 500 and a further BeginCheckout.
FetchShipping(r) ==
    /\ pc = "fetchShipping"
    /\ IF r.err = "" THEN Goto("parseShipping")
       ELSE IF r.err # "ErrNotAuthenticated" /\ r.status = 500
       THEN \E b \in BeginAnswers, again \in CheckoutFetches :
                IF again.err = "" THEN Goto("parseShipping") ELSE Fail(again.err)
       ELSE Fail(r.err)
    /\ beginErr' = ""
    /\ UNCHANGED <<attempt, errItems, flags, profile, profileFile, cart, poll, shipping,
                   payment, placed, orderID, stages, sent, consent>>
    /\ UNCHANGED others

\* runOrder, lines 554-593: tokens and address of the shipping page.
ParseShipping(page, choice, lines, again, written) ==
    /\ pc = "parseShipping"
    /\ LET csrf == ExtractCSRFToken(page)
           shipment == ExtractShipmentUUID(page)
           candidates == ParseAddressCandidates(page)
           unresolved == profile.Address = <<>> \/ profile.AddressID = ""
           chosen == selectAddress(candidates, choice)
           resolved ==
               IF unresolved
               THEN [profile EXCEPT !.AddressID = chosen.ID,
                                    !.Address = <<ensureAddressComplete(chosen.Address, lines)>>,
                                    !.AddressSource = "shipping-page"]
               ELSE profile
           completed ==
               IF AddressIsComplete(resolved.Address[1]) THEN resolved
               ELSE [resolved EXCEPT !.Address = <<ensureAddressComplete(resolved.Address[1], again)>>]
       IN  IF ~csrf[2]
           THEN Fail("failed to parse csrf token") /\ UNCHANGED <<profile, profileFile, shipping>>
           ELSE IF ~shipment[2]
           THEN Fail("failed to parse shipment UUID") /\ UNCHANGED <<profile, profileFile, shipping>>
           ELSE IF unresolved /\ Len(candidates) = 0
           THEN Fail("no address found in account") /\ UNCHANGED <<profile, profileFile, shipping>>
           ELSE IF unresolved /\ ~written
           THEN /\ Fail("save profile failed")
                /\ profile' = resolved
                /\ UNCHANGED <<profileFile, shipping>>
           ELSE IF ~AddressIsComplete(resolved.Address[1]) /\ ~written
           THEN /\ Fail("save profile failed")
                /\ profile' = completed
                /\ profileFile' = IF unresolved THEN resolved ELSE profileFile
                /\ UNCHANGED shipping
           ELSE /\ Goto("submitShipping")
                /\ profile' = completed
                /\ profileFile' = IF unresolved \/ ~AddressIsComplete(resolved.Address[1])
                                  THEN completed ELSE profileFile
                /\ shipping' = [csrfToken |-> csrf[1], shipmentUUID |-> shipment[1],
                                candidates |-> candidates]
    /\ UNCHANGED <<attempt, errItems, flags, cart, poll, payment, beginErr, placed, orderID,
                   stages, sent, consent>>
    /\ UNCHANGED others

\* runOrder, lines 595-598; the candidates read from the page are dropped.
SendShipping(resp) ==
    /\ pc = "submitShipping"
    /\ IF SubmitShipping(shipping.shipmentUUID, shipping.csrfToken, resp).err # ""
       THEN Fail(SubmitShipping(shipping.shipmentUUID, shipping.csrfToken, resp).err)
       ELSE Goto("fetchPayment")
    /\ stages' = IF SubmitShipping(shipping.shipmentUUID, shipping.csrfToken, resp).issued
                  THEN [stages EXCEPT !.shipping = <<resp>>] ELSE stages
    /\ shipping' = [shipping EXCEPT !.candidates = <<>>]
    /\ UNCHANGED <<attempt, errItems, flags, profile, profileFile, cart, poll,
                   payment, beginErr, placed, orderID, sent, consent>>
    /\ UNCHANGED others

\* checkTotals without the comparison of balance and total.
checkTotals_noBalance(page) ==
    LET total == ExtractOrderTotal(page)
        totalAmount == ParseINRAmount(total[1])
    IN  IF ~total[2] THEN "failed to detect order total on payment page"
        ELSE IF ~totalAmount[2] THEN "failed to parse order total amount"
        ELSE IF LeqZero(totalAmount[1]) THEN "invalid order total detected"
        ELSE ""

\* checkTotals with the comparison of balance and total turned around.
checkTotals_reversed(page) ==
    LET total == ExtractOrderTotal(page)
        balance == ExtractWalletBalance(page)
        totalAmount == ParseINRAmount(total[1])
        balAmount == ParseINRAmount(balance[1])
    IN  IF ~total[2] THEN "failed to detect order total on payment page"
        ELSE IF ~totalAmount[2] THEN "failed to parse order total amount"
        ELSE IF LeqZero(totalAmount[1]) THEN "invalid order total detected"
        ELSE IF balance[2] /\ balAmount[2] /\ Less(totalAmount[1], balAmount[1])
        THEN "insufficient wallet balance"
        ELSE ""

\* runOrder, lines 611-645: the error of the check of total and balance, ""
\* when the run goes on to payment.
checkTotals(page) ==
    LET total == ExtractOrderTotal(page)
        balance == ExtractWalletBalance(page)
        totalAmount == ParseINRAmount(total[1])
        balAmount == ParseINRAmount(balance[1])
    IN  IF ~total[2] THEN "failed to detect order total on payment page"
        ELSE IF ~totalAmount[2] THEN "failed to parse order total amount"
        ELSE IF LeqZero(totalAmount[1]) THEN "invalid order total detected"
        ELSE IF balance[2] /\ balAmount[2] /\ Less(balAmount[1], totalAmount[1])
        THEN "insufficient wallet balance"
        ELSE ""

\* runOrder, lines 600-649: the payment page is fetched and checked.
FetchPayment(r, pages) ==
    /\ pc = "fetchPayment"
    /\ IF r.err # "" THEN Fail(r.err) /\ UNCHANGED payment
       ELSE \E page \in pages :
            /\ payment' = [total |-> ExtractOrderTotal(page),
                           balance |-> ExtractWalletBalance(page),
                           csrf |-> IF ExtractCSRFToken(page)[2] THEN ExtractCSRFToken(page)[1]
                                    ELSE shipping.csrfToken,
                           read |-> TRUE]
            /\ IF checkTotals(page) # "" THEN Fail(checkTotals(page))
               ELSE Goto("submitPayment")
    /\ UNCHANGED <<attempt, errItems, flags, profile, profileFile, cart, poll, shipping,
                   beginErr, placed, orderID, stages, sent, consent>>
    /\ UNCHANGED others

\* runOrder, lines 650-653.
SendPayment(resp) ==
    /\ pc = "submitPayment"
    /\ sent' = IF SubmitPayment(shipping.shipmentUUID, payment.csrf, resp).issued
               THEN Count("SubmitPayment") ELSE sent
    /\ IF SubmitPayment(shipping.shipmentUUID, payment.csrf, resp).err # ""
       THEN Fail(SubmitPayment(shipping.shipmentUUID, payment.csrf, resp).err)
       ELSE Goto("placeOrder")
    /\ stages' = IF SubmitPayment(shipping.shipmentUUID, payment.csrf, resp).issued
                  THEN [stages EXCEPT !.payment = <<resp>>] ELSE stages
    /\ UNCHANGED <<attempt, errItems, flags, profile, profileFile, cart, poll, shipping,
                   payment, beginErr, placed, orderID, consent>>
    /\ UNCHANGED others

\* runOrder returning the error of the save or of the fetch that follow the
\* order.
afterOrder_strict(written, after) ==
    IF ~written THEN "failed to save order info"
    ELSE IF after.err # "" THEN after.err
    ELSE "ok"

\* runOrder, lines 660-674: what the run returns once the order ID is
\* printed; the save's error is a warning, the fetch's error is not looked at.
afterOrder(written, after) == "ok"

\* runOrder, lines 654-674: the order is placed and recorded; a failed save
\* only warns, and the payment page fetched afterwards only prints the
\* balance: its error, kept in placed.after, is dropped.
Place(resp, written, after) ==
    /\ pc = "placeOrder"
    /\ sent' = Count("PlaceOrder")
    /\ IF PlaceOrder(resp).err # ""
       THEN /\ Fail(PlaceOrder(resp).err)
            /\ placed' = [status |-> resp.status, location |-> resp.location, sent |-> TRUE,
                          after |-> <<>>]
            /\ UNCHANGED <<orderID, profile, profileFile>>
       ELSE IF PlaceOrder(resp).orderID = <<>>
       THEN /\ Fail("order placement did not return a valid order ID")
            /\ placed' = [status |-> resp.status, location |-> resp.location, sent |-> TRUE,
                          after |-> <<>>]
            /\ UNCHANGED <<orderID, profile, profileFile>>
       ELSE /\ pc' = "done" /\ result' = afterOrder(written, after)
            /\ placed' = [status |-> resp.status, location |-> resp.location, sent |-> TRUE,
                          after |-> <<after.err>>]
            /\ orderID' = PlaceOrder(resp).orderID
            /\ profile' = [profile EXCEPT !.LastOrder = <<OrderInfo(PlaceOrder(resp).orderID, Now)>>]
            /\ profileFile' = SaveProfile(profile', written)
    /\ UNCHANGED <<attempt, errItems, flags, cart, poll, shipping, payment, beginErr, stages,
                   consent>>
    /\ UNCHANGED others

Next ==
    \/ \E qty \in -1..MaxQty, ret \in {-1, MaxQty}, extra \in BOOLEAN : Start(qty, ret, extra)
    \/ \E ans \in VerifyAnswers : Verify(ans)
    \/ \E r \in CartFetches : FetchCart(r)
    \/ \E cf \in CityFinds, lines \in CityLines, resp \in Responses, written \in {TRUE},
          r \in CartFetches : EnsureCity(cf, lines, resp, written, r)
    \/ \E page \in CartPages : Reconcile(page)
    \/ \E resp \in Responses : AddUnseen(resp)
    \/ \E r \in CartFetches : ConfirmPoll(r, PollPages)
    \/ \E resp \in Responses : SetJars(resp)
    \/ \E resp \in Responses, token \in {"", "tok-json"}, retryResp \in Responses :
          SavedAddress(resp, token, retryResp)
    \/ \E first \in BeginAnswers, second \in BeginAnswers : Begin(first, second)
    \/ \E r \in CheckoutFetches : FetchShipping(r)
    \/ \E page \in ShippingPages, choice \in ChoiceLines, lines \in AddressLines,
          again \in AddressLines, written \in BOOLEAN :
          ParseShipping(page, choice, lines, again, written)
    \/ \E resp \in Responses : SendShipping(resp)
    \/ \E r \in CheckoutFetches : FetchPayment(r, PaymentPages)
    \/ \E resp \in Responses : SendPayment(resp)
    \/ \E resp \in PlaceAnswers, written \in BOOLEAN, after \in CheckoutFetches :
          Place(resp, written, after)

Spec == Init /\ [][Next]_vars

(***************************************************************************)
(* The order command with its retry orchestration: on session loss the    *)
(* operator is asked, and on consent the session is refreshed and the     *)
(* order sequence is run once more.                                        *)
(***************************************************************************)
\* Reauthentication retries of one order command.
maxReauthRetries == 1

\* The first run reported session loss: the operator is asked.
Prompt(input) ==
    /\ pc = "prompt"
    /\ prompts' = prompts + 1
    /\ answer' = confirmLoginPrompt(input, promptWindow)
    /\ IF confirmLoginPrompt(input, promptWindow).accepted
       THEN pc' = "reauth" /\ result' = ""
       ELSE IF confirmLoginPrompt(input, promptWindow).timedOut
       THEN /\ pc' = "done"
            /\ result' = "session expired and confirmation timed out; run 'bislericli auth login'"
       ELSE /\ pc' = "done"
            /\ result' = "session expired; login cancelled; run 'bislericli auth login'"
    /\ UNCHANGED <<attempt, errItems, flags, profile, profileFile, cart, poll, checkout,
                   sent, reauths, retriesLeft>>
    /\ UNCHANGED others

\* The operator accepted: the session is refreshed and the order sequence is
\* run once more.
Reauth(login) ==
    /\ pc = "reauth"
    /\ reauths' = reauths + 1
    /\ retriesLeft' = retriesLeft - 1
    /\ IF refreshSessionForOrder(profile, login).err # ""
       THEN /\ pc' = "done" /\ result' = refreshSessionForOrder(profile, login).err
            /\ UNCHANGED <<attempt, profile, profileFile, errItems, cart, poll, checkout, sent>>
       ELSE /\ pc' = "verify" /\ result' = ""
            /\ attempt' = attempt + 1
            /\ profile' = refreshSessionForOrder(profile, login).profile
            /\ profileFile' = profile'
            /\ errItems' = <<>> /\ cart' = NoCart /\ poll' = 0
            /\ shipping' = NoShipping /\ payment' = NoPayment /\ beginErr' = ""
            /\ placed' = NoResponse /\ orderID' = <<>> /\ sent' = NoneSent
            /\ stages' = NoStages
    /\ otpLogin' = [otpLogin EXCEPT !.phone = refreshSessionForOrder(profile, login).phone]
    /\ UNCHANGED <<flags, prompts, answer, logout, call, run, auth>>

\* The pages of the runs of the command with retry.
RetryCartPages == {p \in PollPages : Len(p.scan) = 0 \/ p.cartCount = 0}

RetryPaymentPages == {p \in PaymentPages : p.csrfMatch = "" /\ p.walletMatch = <<"1", "0", "0">>}

\* The profiles of the runs of the command with retry: a session and a saved
\* phone number.
RetryProfiles == {p \in Profiles : Len(p.Cookies) > 0 /\ p.PhoneNumber # ""}

InitRetry ==
    /\ pc = "start"
    /\ attempt = 0
    /\ result = ""
    /\ errItems = <<>>
    /\ quantity = 0
    /\ returnJars = -1
    /\ allowExtra = FALSE
    /\ profileFile \in RetryProfiles
    /\ profile = profileFile
    /\ cart = NoCart
    /\ poll = 0
    /\ shipping = NoShipping
    /\ payment = NoPayment
    /\ beginErr = ""
    /\ sent = NoneSent
    /\ placed = NoResponse
    /\ orderID = <<>>
    /\ prompts = 0
    /\ answer = NoAnswer
    /\ reauths = 0
    /\ retriesLeft = maxReauthRetries
    /\ otpLogin = NoLogin
    /\ logout = NoLogout
    /\ call = NoCall
    /\ run = NoRun
    /\ auth = NoAuth
    /\ stages = NoStages

NextRetry ==
    \/ \E qty \in {0}, ret \in {-1, 0}, extra \in {FALSE} : Start(qty, ret, extra)
    \/ \E ans \in VerifyAnswers : Verify(ans)
    \/ \E r \in CartFetches : FetchCart(r)
    \/ \E cf \in CityFinds, lines \in CityLines, resp \in Responses, written \in {TRUE},
          r \in CartFetches : EnsureCity(cf, lines, resp, written, r)
    \/ \E page \in RetryCartPages : Reconcile(page)
    \/ \E resp \in Responses : AddUnseen(resp)
    \/ \E r \in CartFetches : ConfirmPoll(r, RetryCartPages)
    \/ \E resp \in Responses : SetJars(resp)
    \/ \E resp \in Responses, token \in {"", "tok-json"}, retryResp \in Responses :
          SavedAddress(resp, token, retryResp)
    \/ \E first \in BeginAnswers, second \in BeginAnswers : Begin(first, second)
    \/ \E r \in CheckoutFetches : FetchShipping(r)
    \/ \E page \in ShippingPages, choice \in ChoiceLines, lines \in AddressLines,
          again \in AddressLines, written \in BOOLEAN :
          ParseShipping(page, choice, lines, again, written)
    \/ \E resp \in Responses : SendShipping(resp)
    \/ \E r \in CheckoutFetches : FetchPayment(r, RetryPaymentPages)
    \/ \E resp \in Responses : SendPayment(resp)
    \/ \E resp \in PlaceAnswers, written \in BOOLEAN, after \in CheckoutFetches :
          Place(resp, written, after)
    \/ \E input \in PromptInputs : Prompt(input)
    \/ \E login \in LoginOutcomes : Reauth(login)

SpecRetry == InitRetry /\ [][NextRetry]_vars

(***************************************************************************)
(* The order command at rest, for the operations that run without it.     *)
(***************************************************************************)
command ==
    <<pc, attempt, result, errItems, flags, profile, profileFile, cart, poll, checkout,
      sent, consent>>

NoProfile == Profile(<<>>, "", <<>>, <<>>, "", <<>>, "")

CommandAtRest ==
    /\ pc = "idle" /\ attempt = 0 /\ result = "" /\ errItems = <<>>
    /\ quantity = 0 /\ returnJars = -1 /\ allowExtra = FALSE
    /\ profile = NoProfile /\ profileFile = NoProfile
    /\ cart = NoCart /\ poll = 0
    /\ shipping = NoShipping /\ payment = NoPayment /\ beginErr = ""
    /\ sent = NoneSent /\ placed = NoResponse /\ orderID = <<>>
    /\ prompts = 0 /\ answer = NoAnswer /\ reauths = 0 /\ retriesLeft = 0
    /\ stages = NoStages /\ run = NoRun

(***************************************************************************)
(* The terminal OTP login (internal/auth): the OTP is sent, then the      *)
(* operator is asked for it until a verification succeeds; the line r     *)
(* asks for the OTP to be sent again.                                      *)
(***************************************************************************)
\* The caps of the OTP prompt loop.
maxResends == 3

maxVerifies == 5

\* The lines typed at the OTP prompt: r, the OTP that was sent, another OTP.
ResendLine == <<"r">>

GoodOTP == <<"1", "2", "3", "4", "5", "6">>

BadOTP == <<"6", "5", "4", "3", "2", "1">>

SessionCookies == <<"session">>

Phones == {"9876543210", "9123456780"}

\* The login has returned: its cookies or its error.
loginReturns(l, cookies, err) ==
    [l EXCEPT !.pc = "done", !.cookies = cookies, !.err = err]

\* The line r with no cap on the resends.
onResend_uncapped(l, sendErr) ==
    IF sendErr
    THEN loginReturns([l EXCEPT !.entered = Append(@, ResendLine), !.sends = @ + 1,
                                !.resends = @ + 1], <<>>, "failed to send OTP")
    ELSE [l EXCEPT !.entered = Append(@, ResendLine), !.sends = @ + 1, !.resends = @ + 1]

\* The line r answered with a new OTP that is verified at once.
onResend_verifying(l, sendErr) ==
    IF l.resends >= maxResends
    THEN loginReturns([l EXCEPT !.entered = Append(@, ResendLine)], <<>>,
                      "OTP resend limit reached")
    ELSE [l EXCEPT !.entered = Append(@, ResendLine), !.sends = @ + 1, !.resends = @ + 1,
                   !.verifies = @ + 1]

\* loginWithOTPClient, the line r: sendOTPFn is called once more unless the
\* cap of resends is reached.
onResend(l, sendErr) ==
    IF l.resends >= maxResends
    THEN loginReturns([l EXCEPT !.entered = Append(@, ResendLine)], <<>>,
                      "OTP resend limit reached")
    ELSE IF sendErr
    THEN loginReturns([l EXCEPT !.entered = Append(@, ResendLine), !.sends = @ + 1,
                                !.resends = @ + 1], <<>>, "failed to send OTP")
    ELSE [l EXCEPT !.entered = Append(@, ResendLine), !.sends = @ + 1, !.resends = @ + 1]

\* loginWithOTPClient, a line of six digits: verifyOTPFn is called; its
\* cookies are checked by verifyCookiesFn and returned; after a failed
\* verification the operator is asked again, up to the cap.
onOTP(l, otp, cookiesOk) ==
    LET tried == [l EXCEPT !.entered = Append(@, otp), !.verifies = @ + 1]
    IN  IF otp = GoodOTP
        THEN IF cookiesOk THEN loginReturns(tried, SessionCookies, "")
             ELSE loginReturns(tried, <<>>, "login succeeded but session invalid")
        ELSE IF tried.verifies >= maxVerifies
        THEN loginReturns(tried, <<>>, "OTP verify limit reached")
        ELSE tried

\* loginWithOTPClient up to its first prompt: getCSRFTokenFn and sendOTPFn.
LoginStart(phone, csrfErr, sendErr) ==
    /\ otpLogin.pc = "idle"
    /\ otpLogin' =
          IF csrfErr
          THEN loginReturns([otpLogin EXCEPT !.phone = phone], <<>>, "failed to get session")
          ELSE IF sendErr
          THEN loginReturns([otpLogin EXCEPT !.phone = phone, !.sends = 1], <<>>,
                            "failed to send OTP")
          ELSE [otpLogin EXCEPT !.pc = "prompt", !.phone = phone, !.sends = 1]
    /\ UNCHANGED <<command, logout, call, run, auth>>

\* The operator types r.
LoginResend(sendErr) ==
    /\ otpLogin.pc = "prompt"
    /\ otpLogin' = onResend(otpLogin, sendErr)
    /\ UNCHANGED <<command, logout, call, run, auth>>

\* The operator types an OTP.
LoginEnter(otp, cookiesOk) ==
    /\ otpLogin.pc = "prompt"
    /\ otpLogin' = onOTP(otpLogin, otp, cookiesOk)
    /\ UNCHANGED <<command, logout, call, run, auth>>

\* The input ends.
LoginInputEnds ==
    /\ otpLogin.pc = "prompt"
    /\ otpLogin' = loginReturns(otpLogin, <<>>, "failed to read OTP")
    /\ UNCHANGED <<command, logout, call, run, auth>>

InitLogin ==
    CommandAtRest /\ otpLogin = NoLogin /\ logout = NoLogout /\ call = NoCall /\ auth = NoAuth

NextLogin ==
    \/ \E phone \in Phones, csrfErr \in BOOLEAN, sendErr \in BOOLEAN :
          LoginStart(phone, csrfErr, sendErr)
    \/ \E sendErr \in BOOLEAN : LoginResend(sendErr)
    \/ \E otp \in {GoodOTP, BadOTP}, cookiesOk \in BOOLEAN : LoginEnter(otp, cookiesOk)
    \/ LoginInputEnds

SpecLogin == InitLogin /\ [][NextLogin]_vars

(***************************************************************************)
(* The parser's and the client's functions, each called once on an input   *)
(* (SpecCalls).  call holds the function's name, its argument, and, once   *)
(* the call returned, its value.                                           *)
(***************************************************************************)
MaxText == 3

MaxRupees == 1500

\* The texts of at most n characters over the characters of a.
RECURSIVE Texts(_, _)
Texts(a, n) ==
    IF n = 0 THEN {<<>>}
    ELSE LET t == Texts(a, n - 1) IN t \cup {Append(s, c) : s \in t, c \in a}

AmountChars == {Rupee, ",", ".", "-", "0", "1", "a", " "}

\* Amount texts handed to ParseINRAmount: every short text, and the words
\* strconv.ParseFloat reads as values.
AmountTexts ==
    Texts(AmountChars, MaxText)
    \cup {<<"N", "a", "N">>, <<Rupee, "n", "a", "n">>, <<"I", "n", "f">>, <<"-", "I", "n", "f">>,
          <<"i", "n", "f", "i", "n", "i", "t", "y">>, <<"R", "s", " ", "1", "0", "0">>,
          <<Rupee, "1", ",", "2", "3", "4", ".", "5", "0">>, <<"-", "2", "5", "0">>}

\* strconv.Itoa for n >= 0.
RECURSIVE Itoa(_)
Itoa(n) == IF n < 10 THEN <<Digits[n + 1]>> ELSE Append(Itoa(n \div 10), Digits[(n % 10) + 1])

\* The digits d with a separator before every group of k digits, from the right.
RECURSIVE Group(_, _)
Group(d, k) ==
    IF Len(d) <= k THEN d
    ELSE Group(SubSeq(d, 1, Len(d) - k), k) \o <<",">> \o SubSeq(d, Len(d) - k + 1, Len(d))

\* v as the site prints it: "plain" 1234567, "thousands" 1,234,567,
\* "lakh" 12,34,567.
RupeeDigits(v, style) ==
    LET d == Itoa(v)
    IN  IF style = "plain" \/ Len(d) <= 3 THEN d
        ELSE IF style = "thousands" THEN Group(d, 3)
        ELSE Group(SubSeq(d, 1, Len(d) - 3), 2) \o <<",">> \o SubSeq(d, Len(d) - 2, Len(d))

\* parser.go ExtractWalletBalance / ExtractOrderTotal: "₹" + match[1].
RupeeText(v, style) == <<Rupee>> \o RupeeDigits(v, style)

RupeeStyles == {"plain", "thousands", "lakh"}

RupeeAmounts == 1..MaxRupees \cup {100000, 1234567}

Blank == {<<>>, <<"x">>}

\* Every address by which of its fields are empty.
AddressInputs ==
    [FirstName : Blank, LastName : Blank, Floor : Blank, Address1 : Blank, Address2 : Blank,
     NearByLandmark : Blank, City : Blank, StateCode : Blank, PostalCode : Blank,
     Country : Blank, Phone : Blank, Latitude : Blank, Longitude : Blank]

AccountPath == <<"/", "A", "c", "c", "o", "u", "n", "t", "-", "S", "h", "o", "w">>

HomePath == <<"/", "h", "o", "m", "e">>

LandedPaths ==
    {CartPath, CheckoutPath, OrdersPath, LoginPath, RootPath, OtherPath, <<>>, AccountPath,
     HomePath, CartPath \o LoginPath, CheckoutPath \o OtherPath,
     <<"/", "M", "Y", "C", "A", "R", "T">>, <<"/", "c", "a", "r", "t">>,
     <<"/", "H", "O", "M", "E">>, <<"/", "s", "i", "g", "n", "i", "n">>}

ExpectedPrefixes == {AnyPrefix, CartPath, CheckoutPath, OrdersPath}

\* Cart pages without a checkout form, with up to three candidates in the
\* order of discovery, and the answers to their submissions.
Discovered ==
    <<<<"/", "c", "h", "e", "c", "k", "o", "u", "t">>,
      <<"/", "c", "a", "r", "t", "/", "c", "h", "e", "c", "k", "o", "u", "t">>,
      <<"/", "C", "h", "e", "c", "k", "o", "u", "t", "-", "B", "e", "g", "i", "n">>>>

MaxCandidates == Len(Discovered)

BeginInputs ==
    BeginAnswers \cup
    {[fetch |-> CartFetched, form |-> <<>>, candidates |-> SubSeq(Discovered, 1, n),
      resps |-> rs] :
        n \in 0..MaxCandidates, rs \in [1..MaxCandidates -> {NetErr, Resp(404, <<>>), Resp(200, <<>>)}]}

\* Candidates and offered options for matchCityOption.
CityCandidates ==
    {<<>>,
     <<" ">>,
     <<"p", "u", "n", "e">>,
     <<" ", "P", "U", "N", "E", " ">>,
     <<"P", "u", "n", "e", " ", "C", "i", "t", "y">>,
     <<"b", "o", "m", "b", "a", "y">>,
     <<"m", "u", "m", "b", "a", "i">>,
     <<"n", "a", "v", "i">>,
     <<"m", "u", "m">>,
     <<"b", "a", "n", "g", "a", "l", "o", "r", "e">>,
     <<"d", "e", "l", "h", "i">>}

CityOptions ==
    {<<>>,
     <<<<"P", "u", "n", "e">>, <<"M", "u", "m", "b", "a", "i">>>>,
     <<<<"P", "u", "n", "e">>, <<"M", "u", "m", "b", "a", "i">>, <<"N", "a", "v", "i", " ", "M", "u", "m", "b", "a", "i">>>>,
     <<<<"N", "a", "v", "i", " ", "M", "u", "m", "b", "a", "i">>, <<"M", "u", "m", "b", "a", "i">>>>,
     <<<<"M", "u", "m", "b", "a", "i">>, <<"B", "o", "m", "b", "a", "y">>>>,
     <<<<"B", "o", "m", "b", "a", "y", " ", "C", "e", "n", "t", "r", "a", "l">>, <<"M", "u", "m", "b", "a", "i">>>>,
     <<<<"B", "e", "n", "g", "a", "l", "u", "r", "u">>, <<"D", "e", "l", "h", "i", " ", "N", "C", "R">>>>,
     <<<<"p", "u", "n", "e">>, <<"P", "u", "n", "e">>>>,
     <<<<"M", "u", "m", "b", "a", "i">>, <<"M", "u", "m", "b", "a", "i">>>>}

\* Pages by what the csrf_token pattern captures and by the value of the
\* first input element named csrf_token.
CsrfPages ==
    [csrfMatch : {"", "tok-markup", "tok-input"}, csrfInput : {"", "tok-input", "tok&input"}]

UpperHex == <<"0", "1", "2", "3", "4", "5", "6", "7", "8", "9", "A", "B", "C", "D", "E", "F">>

AddressID == <<"a", "d", "d", "r", "-", "7">>

\* Values of the shipmentUUID input and of the data-shipment-uuid attribute.
UUIDValues ==
    {<<>>, <<" ">>, ShipmentA, <<" ">> \o ShipmentA \o <<" ">>, SubSeq(ShipmentA, 1, 15),
     UpperHex, AddressID, ShipmentB \o <<"-", "x">>}

\* Texts after "shipmentUUID" in the markup.
UUIDTails ==
    {<<>>, <<ShipmentB>>, <<UpperHex>>, <<AddressID, ShipmentA \o <<"X", "Y">>>>,
     <<SubSeq(ShipmentA, 1, 15), ShipmentB, ShipmentA>>}

UUIDPages == [shipInput : UUIDValues, shipData : UUIDValues, shipMatch : UUIDTails]

\* Cart pages with up to two data-uuid elements and every finding of the two
\* fallback strategies.
ItemPages ==
    {CartPage(t, f, <<NoMatch, NoMatch>>) : t \in LineSeqs(2), f \in FallbackFinds}

\* Addresses handed to normalizeStateCode: address lines that quote a state
\* code, a country code, none, or the pattern's own text, with state codes of
\* several lengths.
StateLines ==
    {<<>>,
     <<"f", "l", "a", "t", " ", "2">>,
     <<"F", "l", "a", "t", " ", "2", " ", "K", "A">>,
     <<"I", "N", " ", "K", "A", " ", "M", "H">>,
     <<"1", "2", " ", "M", "G", " ", "R", "o", "a", "d", ",", "M", "H", ",">>,
     <<"P", "U", "N", "E", " ", "I", "N">>,
     CardAddress.Address1}

StateCodes == {<<>>, <<"M">>, <<"M", "H">>, <<"m", "h">>, <<"M", "a", "h", "a">>}

StateInputs ==
    {[CardAddress EXCEPT !.Address1 = l, !.StateCode = c] : l \in StateLines, c \in StateCodes}

Called(fn, arg) == [fn |-> fn, arg |-> <<arg>>, val |-> <<>>, done |-> FALSE]

CallInputs ==
    {Called("AddressIsComplete", a) : a \in AddressInputs}
    \cup {Called("ParseINRAmount", t) : t \in AmountTexts}
    \cup {Called("RupeeText", [v |-> v, style |-> s]) : v \in RupeeAmounts, s \in RupeeStyles}
    \cup {Called("fetchPageWithRetry", [answers |-> a, expectedPrefix |-> p]) :
            a \in PageAnswers(CartPath) \cup PageAnswers(CheckoutPath), p \in {CartPath, CheckoutPath}}
    \cup {Called("validateResponsePath", [resp |-> Resp(s, l), expectedPrefix |-> p]) :
            s \in {200, 503}, l \in LandedPaths, p \in ExpectedPrefixes}
    \cup {Called("BeginCheckout", a) : a \in BeginInputs}
    \cup {Called("matchCityOption", [candidate |-> c, options |-> o]) :
            c \in CityCandidates, o \in CityOptions}
    \cup {Called("ExtractCSRFToken", p) : p \in CsrfPages}
    \cup {Called("ExtractShipmentUUID", p) : p \in UUIDPages}
    \cup {Called("ExtractCartItems", p) : p \in ItemPages}
    \cup {Called("normalizeStateCode", a) : a \in StateInputs}

Returns(val) ==
    /\ call' = [call EXCEPT !.val = <<val>>, !.done = TRUE]
    /\ UNCHANGED <<command, otpLogin, logout, run, auth>>

CallAddressIsComplete ==
    /\ call.fn = "AddressIsComplete" /\ ~call.done
    /\ Returns(AddressIsComplete(call.arg[1]))

CallParseINRAmount ==
    /\ call.fn = "ParseINRAmount" /\ ~call.done
    /\ Returns(ParseINRAmount(call.arg[1]))

\* The amount is printed, and the print is parsed.
CallRupeeText ==
    /\ call.fn = "RupeeText" /\ ~call.done
    /\ Returns(ParseINRAmount(RupeeText(call.arg[1].v, call.arg[1].style)))

CallFetchPage ==
    /\ call.fn = "fetchPageWithRetry" /\ ~call.done
    /\ Returns(fetchPageWithRetry(call.arg[1].answers, call.arg[1].expectedPrefix))

CallValidateResponsePath ==
    /\ call.fn = "validateResponsePath" /\ ~call.done
    /\ Returns([err |-> validateResponsePath(call.arg[1].resp, call.arg[1].expectedPrefix),
                path |-> redirectedTo(call.arg[1].resp, call.arg[1].expectedPrefix)])

CallBeginCheckout ==
    /\ call.fn = "BeginCheckout" /\ ~call.done
    /\ Returns([err |-> BeginCheckout(call.arg[1]), submitted |-> beginSubmits(call.arg[1])])

CallMatchCityOption ==
    /\ call.fn = "matchCityOption" /\ ~call.done
    /\ Returns(matchCityOption(call.arg[1].candidate, call.arg[1].options))

CallExtractCSRFToken ==
    /\ call.fn = "ExtractCSRFToken" /\ ~call.done
    /\ Returns(ExtractCSRFToken(call.arg[1]))

CallExtractShipmentUUID ==
    /\ call.fn = "ExtractShipmentUUID" /\ ~call.done
    /\ Returns(ExtractShipmentUUID(call.arg[1]))

CallExtractCartItems ==
    /\ call.fn = "ExtractCartItems" /\ ~call.done
    /\ Returns(ExtractCartItems(call.arg[1]))

CallNormalizeStateCode ==
    /\ call.fn = "normalizeStateCode" /\ ~call.done
    /\ Returns(normalizeStateCode(call.arg[1]))

InitCalls ==
    /\ CommandAtRest /\ otpLogin = NoLogin /\ logout = NoLogout /\ auth = NoAuth
    /\ call \in CallInputs

NextCalls ==
    \/ CallAddressIsComplete
    \/ CallParseINRAmount
    \/ CallRupeeText
    \/ CallFetchPage
    \/ CallValidateResponsePath
    \/ CallBeginCheckout
    \/ CallMatchCityOption
    \/ CallExtractCSRFToken
    \/ CallExtractShipmentUUID
    \/ CallExtractCartItems
    \/ CallNormalizeStateCode

SpecCalls == InitCalls /\ [][NextCalls]_vars

(***************************************************************************)
(* Logout (internal/bisleri, Client.Logout), one request a step            *)
(* (SpecLogout).  logout.hits lists the logout requests made, each with    *)
(* the status of its answer (0: no answer).                                *)
(***************************************************************************)
defaultBaseURL == <<"h", "t", "t", "p", "s", ":", "/", "/", "w", "w", "w", ".", "b", "i", "s", "l", "e", "r", "i", ".", "c", "o", "m">>

AccountLogoutPath ==
    <<"/", "o", "n", "/", "d", "e", "m", "a", "n", "d", "w", "a", "r", "e", ".", "s", "t", "o", "r", "e", "/", "S", "i", "t", "e", "s", "-", "B", "i", "s", "-", "S", "i", "t", "e", "/", "d", "e", "f", "a", "u", "l", "t", "/", "A", "c", "c", "o", "u", "n", "t", "-", "L", "o", "g", "o", "u", "t">>

LoginLogoutPath ==
    <<"/", "o", "n", "/", "d", "e", "m", "a", "n", "d", "w", "a", "r", "e", ".", "s", "t", "o", "r", "e", "/", "S", "i", "t", "e", "s", "-", "B", "i", "s", "-", "S", "i", "t", "e", "/", "d", "e", "f", "a", "u", "l", "t", "/", "L", "o", "g", "i", "n", "-", "L", "o", "g", "o", "u", "t">>

LogoutLogoutPath ==
    <<"/", "o", "n", "/", "d", "e", "m", "a", "n", "d", "w", "a", "r", "e", ".", "s", "t", "o", "r", "e", "/", "S", "i", "t", "e", "s", "-", "B", "i", "s", "-", "S", "i", "t", "e", "/", "d", "e", "f", "a", "u", "l", "t", "/", "L", "o", "g", "o", "u", "t", "-", "L", "o", "g", "o", "u", "t">>

ShortLogoutPath == <<"/", "l", "o", "g", "o", "u", "t">>

logoutFallbackPaths == <<AccountLogoutPath, LoginLogoutPath, LogoutLogoutPath, ShortLogoutPath>>

\* client.go newURL; the base URL has no trailing slash.
newURL(path) == defaultBaseURL \o path

Anchor(text, href) == [text |-> text, href |-> href]

\* The anchor from position i on that extractLogoutURL stops at; "" for none.
RECURSIVE logoutAnchor(_, _)
logoutAnchor(anchors, i) ==
    IF i > Len(anchors) THEN <<>>
    ELSE LET text == ToLower(TrimSpace(anchors[i].text))
             href == TrimSpace(anchors[i].href)
         IN  IF href = <<>> THEN logoutAnchor(anchors, i + 1)
             ELSE IF Contains(text, <<"l", "o", "g", "o", "u", "t">>) \/ Contains(ToLower(href), <<"l", "o", "g", "o", "u", "t">>)
             THEN href
             ELSE logoutAnchor(anchors, i + 1)

extractLogoutURL(anchors) == logoutAnchor(anchors, 1)

OrdersAnchor == Anchor(<<"M", "y", " ", "O", "r", "d", "e", "r", "s">>, OrdersPath)

\* A logout anchor without a target.
EmptyAnchor == Anchor(<<"L", "o", "g", "o", "u", "t">>, <<" ">>)

SignOutAnchor == Anchor(<<"S", "i", "g", "n", " ", "o", "u", "t">>, <<"/", "A", "c", "c", "o", "u", "n", "t", "-", "L", "O", "G", "O", "U", "T", "?", "r", "=", "1">>)

LogoutAnchor == Anchor(<<" ", "L", "o", "g", "O", "u", "t", " ">>, <<"/", "s", "e", "s", "s", "i", "o", "n", "/", "e", "n", "d">>)

AbsoluteAnchor == Anchor(<<"B", "y", "e">>, defaultBaseURL \o ShortLogoutPath)

\* A target without scheme or leading slash.
BareAnchor == Anchor(<<" ", "L", "o", "g", "O", "u", "t", " ">>, <<"b", "y", "e">>)

Anchors == {OrdersAnchor, EmptyAnchor, SignOutAnchor, LogoutAnchor, AbsoluteAnchor, BareAnchor}

\* The /my-orders pages by their anchors.
LogoutPages == {<<>>} \cup {<<a>> : a \in Anchors} \cup {<<a, b>> : a, b \in Anchors}

LogoutStatuses == {0, 200, 302, 399, 400, 500}

\* The URL hitLogout requests for rawURL.
logoutTarget(rawURL) == IF HasPrefix(rawURL, <<"/">>) THEN newURL(rawURL) ELSE rawURL

\* The answers a GET of url can get; a URL without a scheme is never sent.
LogoutAnswers(url) == IF HasPrefix(url, <<"h", "t", "t", "p">>) THEN LogoutStatuses ELSE {0}

hitLogout_okOnly(status) ==
    IF status = 0 THEN "transport error"
    ELSE IF status = 200 THEN ""
    ELSE "logout request failed"

\* client.go hitLogout, by the status of the answer.
hitLogout(status) ==
    IF status = 0 THEN "transport error"
    ELSE IF status >= 200 /\ status < 400 THEN ""
    ELSE "logout request failed"

Hit(url, status) == [url |-> url, status |-> status]

\* Logout: GET /my-orders and look for a logout link.
LogoutStart(fetched, page) ==
    /\ logout.pc = "idle"
    /\ LET logoutURL == IF fetched THEN extractLogoutURL(page) ELSE <<>>
       IN  logout' = [logout EXCEPT !.link = logoutURL,
                                    !.pc = IF logoutURL # <<>> THEN "link" ELSE "fallback"]
    /\ UNCHANGED <<command, otpLogin, call, run, auth>>

\* Logout: the discovered link is requested.
LogoutHitLink(status) ==
    /\ logout.pc = "link"
    /\ status \in LogoutAnswers(logoutTarget(logout.link))
    /\ logout' = [logout EXCEPT
                    !.hits = Append(@, Hit(logoutTarget(logout.link), status)),
                    !.pc = IF hitLogout(status) = "" THEN "done" ELSE "fallback"]
    /\ UNCHANGED <<command, otpLogin, call, run, auth>>

\* Logout: the next fallback path is requested.
LogoutHitFallback(status) ==
    /\ logout.pc = "fallback"
    /\ LET url == logoutTarget(newURL(logoutFallbackPaths[logout.next]))
       IN  /\ status \in LogoutAnswers(url)
           /\ logout' = [logout EXCEPT
                           !.hits = Append(@, Hit(url, status)),
                           !.next = IF hitLogout(status) = "" THEN @ ELSE @ + 1,
                           !.pc = IF hitLogout(status) = "" \/ logout.next = Len(logoutFallbackPaths)
                                  THEN "done" ELSE "fallback",
                           !.err = IF hitLogout(status) # "" /\ logout.next = Len(logoutFallbackPaths)
                                   THEN "logout failed" ELSE ""]
    /\ UNCHANGED <<command, otpLogin, call, run, auth>>

InitLogout ==
    CommandAtRest /\ otpLogin = NoLogin /\ logout = NoLogout /\ call = NoCall /\ auth = NoAuth

NextLogout ==
    \/ \E fetched \in BOOLEAN : \E page \in LogoutPages : LogoutStart(fetched, page)
    \/ \E status \in LogoutStatuses : LogoutHitLink(status)
    \/ \E status \in LogoutStatuses : LogoutHitFallback(status)

SpecLogout == InitLogout /\ [][NextLogout]_vars

(***************************************************************************)
(* The blocking steps of an order run and its deadline (runOrder's ctx):  *)
(* each request waits for the throttle and then for the network, a page   *)
(* fetch waits between its GETs, runOrder and confirmCartQuantity wait     *)
(* between stages and polls, and the prompts wait for a line of the input. *)
(***************************************************************************)
\* An error value: what it is about, and whether errors.Is still finds the
\* sentinel (context.DeadlineExceeded, ErrNotAuthenticated) in its chain.
Err(kind, is) == [kind |-> kind, is |-> is]

ctxErr == Err("deadline", TRUE)

AuthErr == Err("auth", TRUE)

OtherErr == Err("other", FALSE)

\* The HTTPStatusError of an answer with status 500.
Status500 == Err("http500", FALSE)

\* The stages that fetch a page with retries, and the ones that issue one
\* request.
PageFetches ==
    {"cart", "cartRefetch", "pollFetch", "beginFetch", "shipFetch", "payFetch",
     "balanceFetch"}

SingleRequests ==
    {"verify", "setCity", "update", "add", "pollUpdate0", "pollUpdate", "jars",
     "savedAddr", "beginSubmit", "submitShipping", "submitPayment", "place"}

\* The waits between stages and polls, and the prompts.
Delays == {"settle1", "settle2", "beginDelay", "pollDelay"}

Prompts == {"cityPrompt", "addrPrompt", "fieldsPrompt"}

\* The points where the run decides on what a page holds.
Decisions == {"city", "reconcile", "pollPage", "beginForm", "shipPage", "payPage"}

\* The stage of the order sequence a step belongs to.
StageOf(step) ==
    CASE step = "beginFetch" -> "begin"
      [] step = "balanceFetch" -> "payFetch"
      [] step \in WaitStages -> step
      [] OTHER -> ""

\* The run enters a step: a request starts at the throttle.
Enter(r, step) ==
    [r EXCEPT !.pc = step,
              !.phase = IF step \in PageFetches \cup SingleRequests THEN "throttle" ELSE "",
              !.n = IF step \in PageFetches THEN 1 ELSE 0,
              !.times = IF StageOf(step) = "" THEN @
                        ELSE [@ EXCEPT ![StageOf(step)] = @ + 1]]

\* runOrder returns e.
Ends(r, e) == [r EXCEPT !.pc = "done", !.phase = "", !.n = 0, !.err = e]

\* The end of a poll of confirmCartQuantity that confirmed nothing: the
\* wait before the next poll, or after the last poll the error that prints
\* lastErr with %v.
PollEnds(r, e) ==
    IF r.poll < confirmMaxAttempts
    THEN [r EXCEPT !.pc = "pollDelay", !.phase = "", !.n = 0, !.lastErr = e]
    ELSE Ends(r, Err(e.kind, FALSE))

\* BeginCheckout tried again after every error.
BeginReturns_untilSuccess(r, e) ==
    IF e # NoErr
    THEN [r EXCEPT !.pc = "beginDelay", !.phase = "", !.n = 0]
    ELSE Enter(r, "shipFetch")

\* BeginCheckout returns e: runOrder tries it twice, one second apart, and
\* once more (its error dropped) before the shipping page is fetched again.
BeginReturns(r, e) ==
    IF r.begins < 2 /\ e # NoErr
    THEN [r EXCEPT !.pc = "beginDelay", !.phase = "", !.n = 0]
    ELSE Enter(r, "shipFetch")

\* The request or page fetch of the step the run is in returns e (NoErr
\* when it succeeded): what runOrder does next.
After(r, e) ==
    CASE r.pc = "verify" -> IF e = NoErr THEN Enter(r, "cart") ELSE Ends(r, e)
      [] r.pc = "cart" ->
            IF e = NoErr THEN [r EXCEPT !.pc = "city", !.phase = "", !.n = 0]
            ELSE IF e.kind = "auth" /\ e.is THEN Ends(r, e)
            ELSE Enter([r EXCEPT !.poll = 0], "add")
      [] r.pc = "setCity" -> IF e = NoErr THEN Enter(r, "cartRefetch") ELSE Ends(r, e)
      [] r.pc = "cartRefetch" ->
            IF e = NoErr THEN [r EXCEPT !.pc = "reconcile", !.phase = "", !.n = 0]
            ELSE Ends(r, e)
      [] r.pc = "update" -> IF e = NoErr THEN Enter(r, "jars") ELSE Ends(r, e)
      [] r.pc = "add" ->
            IF e = NoErr THEN Enter([r EXCEPT !.poll = 1], "pollFetch") ELSE Ends(r, e)
      [] r.pc = "pollFetch" ->
            IF e = NoErr THEN [r EXCEPT !.pc = "pollPage", !.phase = "", !.n = 0]
            ELSE IF e.kind = "auth" /\ e.is THEN Ends(r, e)
            ELSE PollEnds(r, e)
      [] r.pc = "pollUpdate0" ->
            IF e = NoErr THEN Enter(r, "jars")
            ELSE Enter([r EXCEPT !.lastErr = e], "pollUpdate")
      [] r.pc = "pollUpdate" -> PollEnds(r, IF e = NoErr THEN OtherErr ELSE e)
      [] r.pc = "jars" ->
            IF e = NoErr THEN [r EXCEPT !.pc = "settle1", !.phase = ""] ELSE Ends(r, e)
      [] r.pc = "savedAddr" -> [r EXCEPT !.pc = "settle2", !.phase = ""]
      [] r.pc = "beginFetch" ->
            IF e = NoErr THEN [r EXCEPT !.pc = "beginForm", !.phase = "", !.n = 0]
            ELSE BeginReturns(r, e)
      [] r.pc = "beginSubmit" ->
            BeginReturns(r, IF e # NoErr /\ r.cands THEN OtherErr ELSE e)
      [] r.pc = "shipFetch" ->
            IF e = NoErr THEN [r EXCEPT !.pc = "shipPage", !.phase = "", !.n = 0]
            ELSE IF e.kind = "http500" /\ r.begins < 3
            THEN Enter([r EXCEPT !.begins = 3], "beginFetch")
            ELSE Ends(r, e)
      [] r.pc = "submitShipping" -> IF e = NoErr THEN Enter(r, "payFetch") ELSE Ends(r, e)
      [] r.pc = "payFetch" ->
            IF e = NoErr THEN [r EXCEPT !.pc = "payPage", !.phase = "", !.n = 0]
            ELSE Ends(r, e)
      [] r.pc = "submitPayment" -> IF e = NoErr THEN Enter(r, "place") ELSE Ends(r, e)
      [] r.pc = "place" -> IF e = NoErr THEN Enter(r, "balanceFetch") ELSE Ends(r, e)
      [] r.pc = "balanceFetch" -> Ends(r, NoErr)
      [] OTHER -> r

\* A blocking step of the run returns because the deadline has fired.
Observes(r) == [r EXCEPT !.hit = IF @ = "" THEN r.pc ELSE @]

\* A request of the run failed with e: a page fetch keeps it as lastErr and
\* waits before the next GET while attempts are left, and returns it
\* wrapped (%w) after the last; a single request returns it as it is.
RequestFails(r, e) ==
    IF r.pc \in PageFetches /\ r.n < maxAttempts
    THEN [r EXCEPT !.phase = "backoff"]
    ELSE After(r, e)

\* What the network may answer to a request of the run.
WaitAnswers == {"ok", "auth", "400", "500", "503", "neterr"}

\* The answers that make a page fetch try again.
Transient == {"500", "503", "neterr"}

\* The error of an answer.
AnswerErr(ans) ==
    CASE ans = "ok" -> NoErr
      [] ans = "auth" -> AuthErr
      [] ans = "500" -> Status500
      [] OTHER -> OtherErr

\* What the run finds on a page it fetched, and what the operator types.
Findings ==
    {"skip", "resolved", "ask", "fail", "update", "same", "add", "absent", "extra",
     "zero", "differs", "form", "candidate", "none", "choose", "fields", "ready"}

Lines == {"plain", "more", "saveFails"}

waits == <<command, otpLogin, logout, call, auth>>

\* runOrder starts: the deadline is set and the session is checked.
StartRun ==
    /\ run.pc = "idle"
    /\ run' = Enter(run, "verify")
    /\ UNCHANGED waits

\* The deadline of the run fires (context.WithTimeout).
Fire ==
    /\ run.pc \notin {"idle", "done"}
    /\ ~run.fired
    /\ run' = [run EXCEPT !.fired = TRUE]
    /\ UNCHANGED waits

\* Client.do's wait for the throttle: the request is issued unless the
\* deadline has fired.
Throttle ==
    /\ run.phase = "throttle"
    /\ run' = IF run.fired
              THEN RequestFails(Observes(run), ctxErr)
              ELSE [run EXCEPT !.phase = "network"]
    /\ UNCHANGED waits

\* The request in flight returns: with the context's error when the
\* deadline has fired, else with the answer of the network.
Network(ans) ==
    /\ run.phase = "network"
    /\ run.pc \in SingleRequests => ans \in {"ok", "400"} \cup
                                       (IF run.pc = "verify" THEN {"auth"} ELSE {})
    /\ run' = IF run.fired THEN RequestFails(Observes(run), ctxErr)
              ELSE IF ans \in Transient /\ run.pc \in PageFetches
              THEN RequestFails(run, AnswerErr(ans))
              ELSE After(run, AnswerErr(ans))
    /\ UNCHANGED waits

\* fetchPageWithRetry's wait before the next GET.
Backoff ==
    /\ run.phase = "backoff"
    /\ run' = IF run.fired THEN After(Observes(run), ctxErr)
              ELSE [run EXCEPT !.phase = "throttle", !.n = @ + 1]
    /\ UNCHANGED waits

\* The waits of runOrder and confirmCartQuantity between stages and polls;
\* saved: the profile holds an address ready for the location request.
Delay(saved) ==
    /\ run.pc \in Delays
    /\ run' = IF run.fired THEN Ends(Observes(run), ctxErr)
              ELSE CASE run.pc = "settle1" ->
                          IF saved THEN Enter(run, "savedAddr")
                          ELSE [run EXCEPT !.pc = "settle2"]
                     [] run.pc = "settle2" -> Enter([run EXCEPT !.begins = 1], "beginFetch")
                     [] run.pc = "beginDelay" -> Enter([run EXCEPT !.begins = 2], "beginFetch")
                     [] OTHER -> Enter([run EXCEPT !.poll = @ + 1], "pollFetch")
    /\ UNCHANGED waits

\* runOrder reads the page it fetched and goes on by what it found.
Decide(found) ==
    /\ run.pc \in Decisions
    /\ run' =
         CASE run.pc = "city" /\ found = "skip" -> [run EXCEPT !.pc = "reconcile"]
           [] run.pc = "city" /\ found = "resolved" -> Enter(run, "setCity")
           [] run.pc = "city" /\ found = "ask" -> [run EXCEPT !.pc = "cityPrompt"]
           [] run.pc = "reconcile" /\ found = "fail" -> Ends(run, OtherErr)
           [] run.pc = "reconcile" /\ found = "update" -> Enter(run, "update")
           [] run.pc = "reconcile" /\ found = "same" -> Enter(run, "jars")
           [] run.pc = "reconcile" /\ found = "add" -> Enter(run, "add")
           [] run.pc = "pollPage" /\ found = "absent" -> PollEnds(run, OtherErr)
           [] run.pc = "pollPage" /\ found = "extra" -> Ends(run, OtherErr)
           [] run.pc = "pollPage" /\ found = "zero" -> Enter(run, "pollUpdate0")
           [] run.pc = "pollPage" /\ found = "same" -> Enter(run, "jars")
           [] run.pc = "pollPage" /\ found = "differs" -> Enter(run, "pollUpdate")
           [] run.pc = "beginForm" /\ found = "form" ->
                 Enter([run EXCEPT !.cands = FALSE], "beginSubmit")
           [] run.pc = "beginForm" /\ found = "candidate" ->
                 Enter([run EXCEPT !.cands = TRUE], "beginSubmit")
           [] run.pc = "beginForm" /\ found = "none" -> BeginReturns(run, OtherErr)
           [] run.pc = "shipPage" /\ found = "fail" -> Ends(run, OtherErr)
           [] run.pc = "shipPage" /\ found = "choose" -> [run EXCEPT !.pc = "addrPrompt"]
           [] run.pc = "shipPage" /\ found = "fields" -> [run EXCEPT !.pc = "fieldsPrompt"]
           [] run.pc = "shipPage" /\ found = "ready" -> Enter(run, "submitShipping")
           [] run.pc = "payPage" /\ found = "fail" -> Ends(run, OtherErr)
           [] run.pc = "payPage" /\ found = "ready" -> Enter(run, "submitPayment")
           [] OTHER -> run
    /\ run' # run
    /\ UNCHANGED waits

\* A line of the input reaches the prompt the run is blocked in (selectCity,
\* selectAddress, ensureAddressComplete): the read takes no context, so the
\* run goes on only when the operator types.
PromptLine(line) ==
    /\ run.pc \in Prompts
    /\ run' =
         CASE run.pc = "cityPrompt" /\ line = "plain" -> Enter(run, "setCity")
           [] run.pc = "cityPrompt" /\ line = "more" -> [run EXCEPT !.pc = "reconcile"]
           [] run.pc = "addrPrompt" /\ line = "plain" -> Enter(run, "submitShipping")
           [] run.pc = "addrPrompt" /\ line = "more" -> [run EXCEPT !.pc = "fieldsPrompt"]
           [] run.pc = "fieldsPrompt" /\ line = "plain" -> Enter(run, "submitShipping")
           [] run.pc \in {"addrPrompt", "fieldsPrompt"} /\ line = "saveFails" ->
                 Ends(run, OtherErr)
           [] OTHER -> run
    /\ run' # run
    /\ UNCHANGED waits

InitWaits ==
    CommandAtRest /\ otpLogin = NoLogin /\ logout = NoLogout /\ call = NoCall /\ auth = NoAuth

\* The steps the program takes on its own.
RunSteps ==
    \/ StartRun
    \/ Throttle
    \/ \E ans \in WaitAnswers : Network(ans)
    \/ Backoff
    \/ \E saved \in BOOLEAN : Delay(saved)
    \/ \E found \in Findings : Decide(found)

NextWaits ==
    \/ RunSteps
    \/ Fire
    \/ \E line \in Lines : PromptLine(line)

SpecWaits == InitWaits /\ [][NextWaits]_vars

\* The program keeps running and the deadline fires; nothing makes the
\* operator type.
SpecWaitsLive == SpecWaits /\ WF_vars(RunSteps) /\ WF_vars(Fire)

(***************************************************************************)
(* auth login (main.go runAuth, loadOrCreateProfile, tryCaptureAddress;    *)
(* store.LoadProfile, store.SaveProfile, config.ProfilePath), one call a   *)
(* step (SpecAuth).  auth.disk maps every profile name to the file at the  *)
(* path ProfilePath gives it.                                              *)
(***************************************************************************)
DefaultName == <<"d", "e", "f", "a", "u", "l", "t">>

WorkName == <<"w", "o", "r", "k">>

InvalidNames ==
    {<<"a", ".", ".", "b">>, <<".", ".", "/", "x">>, <<"a", "/", "b">>, <<"a", "\\", "b">>}

ProfileNames == {DefaultName, WorkName} \cup InvalidNames

\* The file at a path: none, one that cannot be read, one that is not JSON,
\* or an encoded profile.
Absent == [kind |-> "absent"]

Unreadable == [kind |-> "unreadable"]

Garbled == [kind |-> "garbled"]

Stored(prof) == [kind |-> "profile", profile |-> prof]

RECURSIVE TrimSlashes(_)
TrimSlashes(path) ==
    IF path # <<>> /\ path[Len(path)] = "/" THEN TrimSlashes(SubSeq(path, 1, Len(path) - 1))
    ELSE path

\* filepath.Base with the separator "/".
Base(path) ==
    IF path = <<>> THEN <<".">>
    ELSE IF TrimSlashes(path) = <<>> THEN <<"/">>
    ELSE LET t == TrimSlashes(path)
             cuts == {i \in DOMAIN t : t[i] = "/"}
         IN  IF cuts = {} THEN t
             ELSE SubSeq(t, (CHOOSE i \in cuts : \A j \in cuts : j <= i) + 1, Len(t))

\* config.go validateProfileName: the error.
validateProfileName(name) ==
    IF Contains(name, <<".", ".">>) \/ \E i \in DOMAIN name : name[i] \in {"/", "\\"}
    THEN "invalid profile name"
    ELSE IF Base(name) # name THEN "invalid profile name"
    ELSE ""

\* config.go ProfilePath: the name is checked before the profiles directory
\* is made; the path is the name under that directory.
ProfilePath(name, dirMade) ==
    IF name = <<>> THEN [path |-> <<>>, err |-> "profile name required"]
    ELSE IF validateProfileName(name) # "" THEN [path |-> <<>>, err |-> validateProfileName(name)]
    ELSE IF ~dirMade THEN [path |-> <<>>, err |-> "mkdir failed"]
    ELSE [path |-> name, err |-> ""]

\* store.LoadProfile.
LoadProfile(file) ==
    IF file.kind = "absent" THEN [profile |-> <<>>, err |-> "ErrNotExist"]
    ELSE IF file.kind = "unreadable" THEN [profile |-> <<>>, err |-> "read error"]
    ELSE IF file.kind = "garbled" THEN [profile |-> <<>>, err |-> "decode error"]
    ELSE IF file.profile.Name = <<>> THEN [profile |-> <<>>, err |-> "profile is missing name"]
    ELSE [profile |-> <<file.profile>>, err |-> ""]

\* store.SaveProfile on the file at path.
Saved(disk, path, prof, written) ==
    IF written THEN [disk EXCEPT ![path] = Stored(prof)] ELSE disk

\* The profile file of a name as loadOrCreateProfile creates it.
NewProfile(name) == [Profile(<<>>, "", <<>>, <<>>, <<>>, <<>>, "") EXCEPT !.Name = name, !.LastLogin = 0]

Loaded(prof, created, err, disk) ==
    [profile |-> prof, created |-> created, err |-> err, disk |-> disk]

\* loadOrCreateProfile writing a new file after any failed load.
loadOrCreateProfile_anyError(disk, name, dirMade, written) ==
    IF ProfilePath(name, dirMade).err # ""
    THEN Loaded(<<>>, FALSE, ProfilePath(name, dirMade).err, disk)
    ELSE IF LoadProfile(disk[name]).err = ""
    THEN Loaded(LoadProfile(disk[name]).profile, FALSE, "", disk)
    ELSE IF ~written THEN Loaded(<<>>, FALSE, "write error", disk)
    ELSE Loaded(<<NewProfile(name)>>, TRUE, "", Saved(disk, name, NewProfile(name), TRUE))

\* main.go loadOrCreateProfile: the profile, whether it was created, the
\* error, and the files afterwards.
loadOrCreateProfile(disk, name, dirMade, written) ==
    IF ProfilePath(name, dirMade).err # ""
    THEN Loaded(<<>>, FALSE, ProfilePath(name, dirMade).err, disk)
    ELSE IF LoadProfile(disk[name]).err = ""
    THEN Loaded(LoadProfile(disk[name]).profile, FALSE, "", disk)
    ELSE IF LoadProfile(disk[name]).err # "ErrNotExist"
    THEN Loaded(<<>>, FALSE, LoadProfile(disk[name]).err, disk)
    ELSE IF ~written THEN Loaded(<<>>, FALSE, "write error", disk)
    ELSE Loaded(<<NewProfile(name)>>, TRUE, "", Saved(disk, name, NewProfile(name), TRUE))

\* main.go resolveProfileName.
resolveProfileName(flagValue, current) ==
    IF flagValue # <<>> THEN flagValue
    ELSE IF current = <<>> THEN DefaultName
    ELSE current

SavedPhone == <<"9", "8", "7", "6", "5", "4", "3", "2", "1", "0">>

TypedPhone == <<"9", "1", "2", "3", "4", "5", "6", "7", "8", "0">>

\* runAuth, lines 179-187: spaces and dashes go, and the country code when
\* the number is that much too long.
cleanPhone(number) ==
    LET digits == Remove(Remove(number, " "), "-")
    IN  IF HasPrefix(digits, <<"+", "9", "1">>) /\ Len(digits) = 13
        THEN TrimPrefix(digits, <<"+", "9", "1">>)
        ELSE IF HasPrefix(digits, <<"9", "1">>) /\ Len(digits) = 12
        THEN TrimPrefix(digits, <<"9", "1">>)
        ELSE digits

\* runAuth, lines 159-178: the number of the flag, else the saved number
\* unless the operator types another, else the number the operator types.
phoneNumberFor(flagPhone, savedPhone, line) ==
    IF flagPhone # <<>> THEN flagPhone
    ELSE IF savedPhone # <<>> /\ TrimSpace(line) = <<>> THEN savedPhone
    ELSE TrimSpace(line)

\* runAuth, lines 199-218: the profile built after the login.
loginProfile(existing, name, cookies, phone) ==
    [Name |-> name, Cookies |-> cookies, AddressID |-> existing.AddressID,
     Address |-> existing.Address, PreferredCity |-> existing.PreferredCity,
     PhoneNumber |-> IF phone = <<>> THEN existing.PhoneNumber ELSE phone,
     LastLogin |-> Now, LastOrder |-> <<>>, AddressSource |-> ""]

\* main.go tryCaptureAddress: the default candidate of the shipping page,
\* else the first, becomes the profile's address.
tryCaptureAddress(prof, fetchErr, candidates) ==
    IF fetchErr # "" THEN [profile |-> prof, err |-> fetchErr]
    ELSE IF Len(candidates) = 0 THEN [profile |-> prof, err |-> "no address candidates found"]
    ELSE LET defaults == {i \in DOMAIN candidates : candidates[i].IsDefault}
             selected == IF defaults = {} THEN candidates[1] ELSE candidates[First(defaults)]
         IN  [profile |-> [prof EXCEPT !.AddressID = selected.ID,
                                        !.Address = <<selected.Address>>,
                                        !.AddressSource = "shipping-page"],
              err |-> ""]

AuthEnds(err) == [auth EXCEPT !.pc = "done", !.err = err]

\* runAuth, lines 135-143: the global config is loaded, the name resolved and
\* the profile loaded or created.
AuthLoad(flagValue, configRead, dirMade, written) ==
    /\ auth.pc = "start"
    /\ LET name == resolveProfileName(flagValue, auth.current)
           got == loadOrCreateProfile(auth.disk, name, dirMade, written)
       IN  auth' = IF ~configRead THEN AuthEnds("config read error")
                   ELSE IF got.err # ""
                   THEN [auth EXCEPT !.pc = "done", !.name = name, !.err = got.err,
                                     !.disk = got.disk]
                   ELSE [auth EXCEPT !.pc = "login", !.name = name, !.disk = got.disk,
                                     !.existing = got.profile, !.created = got.created]
    /\ UNCHANGED <<command, otpLogin, logout, call, run>>

\* runAuth, lines 145-197: the login by the browser or by OTP.
AuthLogin(method, flagPhone, line, loggedIn) ==
    /\ auth.pc = "login"
    /\ LET number == cleanPhone(phoneNumberFor(flagPhone, auth.existing[1].PhoneNumber, line))
       IN  auth' = IF method = "browser"
                   THEN IF loggedIn
                        THEN [auth EXCEPT !.pc = "save", !.cookies = NewSession]
                        ELSE AuthEnds("login failed")
                   ELSE IF Len(number) # 10
                   THEN AuthEnds("invalid phone number: must be 10 digits")
                   ELSE IF loggedIn
                   THEN [auth EXCEPT !.pc = "save", !.cookies = NewSession, !.phone = number]
                   ELSE [AuthEnds("login failed") EXCEPT !.phone = number]
    /\ UNCHANGED <<command, otpLogin, logout, call, run>>

\* runAuth, lines 199-222: the profile is built and saved.
AuthSave(written) ==
    /\ auth.pc = "save"
    /\ LET built == loginProfile(auth.existing[1], auth.name, auth.cookies, auth.phone)
       IN  auth' = IF ~written THEN [AuthEnds("write error") EXCEPT !.built = <<built>>]
                   ELSE [auth EXCEPT !.pc = "capture", !.built = <<built>>,
                                     !.disk = Saved(auth.disk, auth.name, built, TRUE)]
    /\ UNCHANGED <<command, otpLogin, logout, call, run>>

\* runAuth, lines 223-231: the address is captured and saved when there is
\* one, and the profile becomes the current one.
AuthCapture(fetchErr, candidates, written, configSaved) ==
    /\ auth.pc = "capture"
    /\ LET captured == tryCaptureAddress(auth.built[1], fetchErr, candidates)
       IN  auth' = [auth EXCEPT
                      !.pc = "done",
                      !.built = <<captured.profile>>,
                      !.disk = IF captured.err = ""
                               THEN Saved(auth.disk, auth.name, captured.profile, written)
                               ELSE auth.disk,
                      !.current = IF configSaved THEN auth.name ELSE auth.current,
                      !.err = IF configSaved THEN "" ELSE "config write error"]
    /\ UNCHANGED <<command, otpLogin, logout, call, run>>

\* The profile files a name may have before the command.
StoredProfile(name) ==
    [Profile(OldSession, "addr-1", <<HomeAddress>>, Pune, SavedPhone,
             <<OrderInfo(<<"B", "I", "S", "0", "9", "0", "0">>, 1)>>, "account")
        EXCEPT !.Name = name]

ProfileFiles(name) ==
    {Absent, Unreadable, Garbled, Stored(StoredProfile(name)), Stored(NewProfile(name)),
     Stored(NewProfile(<<>>))}

Disks ==
    {[n \in ProfileNames |-> IF n = DefaultName THEN d ELSE IF n = WorkName THEN w ELSE Absent] :
        d \in ProfileFiles(DefaultName), w \in {Absent, Stored(StoredProfile(WorkName))}}

PhoneFlags == {<<>>, <<"+", "9", "1", " ", "9", "1", "2", "3", "4", "-", "5", "6", "7", "8", "0">>}

PhoneLines == {<<>>, <<" ", "9", "1", "9", "1", "2", "3", "4", "5", "6", "7", "8", "0">>, <<"1", "2", "3">>}

CaptureErrs == {"", "ErrNotAuthenticated", "transport error"}

InitAuth ==
    /\ CommandAtRest /\ otpLogin = NoLogin /\ logout = NoLogout /\ call = NoCall
    /\ auth \in {[NoAuth EXCEPT !.pc = "start", !.disk = d, !.current = c] :
                    d \in Disks, c \in {<<>>, WorkName}}

NextAuth ==
    \/ \E flagValue \in ProfileNames \cup {<<>>}, configRead \in BOOLEAN, dirMade \in BOOLEAN,
          written \in BOOLEAN : AuthLoad(flagValue, configRead, dirMade, written)
    \/ \E method \in {"browser", "otp"}, flagPhone \in PhoneFlags, line \in PhoneLines,
          loggedIn \in BOOLEAN : AuthLogin(method, flagPhone, line, loggedIn)
    \/ \E written \in BOOLEAN : AuthSave(written)
    \/ \E fetchErr \in CaptureErrs, candidates \in CandidateLists, written \in BOOLEAN,
          configSaved \in BOOLEAN : AuthCapture(fetchErr, candidates, written, configSaved)

SpecAuth == InitAuth /\ [][NextAuth]_vars

(***************************************************************************)
(* Properties of the order sequence (Spec).                                *)
(***************************************************************************)
\* The amounts the payment page read by the run parses to.
TotalAmount == ParseINRAmount(payment.total[1])

BalanceAmount == ParseINRAmount(payment.balance[1])

NoPaymentRequest == sent.SubmitPayment = 0 /\ sent.PlaceOrder = 0

PaymentStarted ==
    pc \in {"submitPayment", "placeOrder"} \/ sent.SubmitPayment > 0 \/ sent.PlaceOrder > 0

\* C1: whenever the payment page read by the run yields an order total T and
\* a wallet balance B that both parse, with B < T, the run has ended with the
\* insufficient-wallet-balance error and has issued neither SubmitPayment nor
\* PlaceOrder.
C1_InsufficientBalanceAborts ==
    (/\ payment.read
     /\ payment.total[2] /\ TotalAmount[2]
     /\ payment.balance[2] /\ BalanceAmount[2]
     /\ Less(BalanceAmount[1], TotalAmount[1]))
    => (/\ pc = "done"
        /\ result = "insufficient wallet balance"
        /\ NoPaymentRequest)

\* C1, the case: a total of 250 rupees against a balance of 100 rupees.
C1_Witness ==
    /\ payment.read
    /\ payment.total = << <<Rupee, "2", "5", "0">>, TRUE >>
    /\ payment.balance = << <<Rupee, "1", "0", "0">>, TRUE >>
    /\ result = "insufficient wallet balance"

\* C2 as stated: the run reaches payment (SubmitPayment, PlaceOrder) only when
\* a wallet balance was extracted from the payment page, parsed and found to
\* be at least the parsed order total; an absent or unparsable balance ends
\* the run before payment.
C2_BalanceRequiredForPayment ==
    PaymentStarted
    => (/\ payment.read
        /\ payment.total[2] /\ TotalAmount[2]
        /\ payment.balance[2] /\ BalanceAmount[2]
        /\ ~Less(BalanceAmount[1], TotalAmount[1]))

\* C2 amended: the run reaches payment only when the order total was
\* extracted from the payment page and parsed, and a balance that was
\* extracted and parsed is not less than the total; a balance that is absent
\* or does not parse does not stop the run.
C2_BalanceCheckedWhenKnown ==
    /\ PaymentStarted
       => (/\ payment.read
           /\ payment.total[2] /\ TotalAmount[2]
           /\ (payment.balance[2] /\ BalanceAmount[2])
              => ~Less(BalanceAmount[1], TotalAmount[1]))
    /\ (payment.read /\ ~(payment.balance[2] /\ BalanceAmount[2]))
       => result # "insufficient wallet balance"

\* C2, the case: SubmitPayment was sent although the payment page showed no
\* wallet balance.
C2_Witness ==
    /\ sent.SubmitPayment > 0
    /\ payment.read
    /\ ~payment.balance[2]

\* C3: whenever the order total of the payment page read by the run was not
\* extracted, did not parse, or parsed to a value that is not strictly
\* positive, the run has ended with an error and has issued neither
\* SubmitPayment nor PlaceOrder.
C3_TotalMustBePositive ==
    (/\ payment.read
     /\ (~payment.total[2] \/ ~TotalAmount[2] \/ ~Less(Zero, TotalAmount[1])))
    => (/\ pc = "done"
        /\ result \notin {"", "ok"}
        /\ NoPaymentRequest)

NoCartRequest == sent.AddProduct = 0 /\ sent.UpdateQuantity = 0

\* The lines of the cart page read at reconciliation whose product is not the
\* target product, the empty-jar product or the deposit product.
OffendingLines ==
    SelectSeq(cart.items,
              LAMBDA it : LowerID(TrimID(it.ProductID)) \notin
                            {LowerID(productID20L), LowerID(EmptyJarProduct),
                             LowerID(DepositProduct)})

\* How the error message names them: by product identifier, a line without
\* one as unknown-item.
OffendingNames ==
    [i \in DOMAIN OffendingLines |->
        IF TrimID(OffendingLines[i].ProductID) = "" THEN "unknown-item"
        ELSE OffendingLines[i].ProductID]

\* C4 on the cart page read at reconciliation: with an offending line on it
\* and --allow-extra unset, the run has ended with the other-items error,
\* the error names every offending line in page order, and no AddProduct and
\* no UpdateQuantity was issued.
C4_ExtrasAbortAtReconcile ==
    (cart.read /\ Len(OffendingLines) > 0 /\ ~allowExtra)
    => (/\ pc = "done"
        /\ result = "cart contains other items"
        /\ errItems = OffendingNames
        /\ NoCartRequest)

\* C4 as stated: whenever the run finds offending lines in the cart with
\* --allow-extra unset, at reconciliation or at a later look at the cart, it
\* has aborted before any AddProduct or UpdateQuantity and names every
\* offending line.
C4_ExtrasAbortBeforeAnyRequest ==
    /\ C4_ExtrasAbortAtReconcile
    /\ result = "cart contains other items" => (NoCartRequest /\ Len(errItems) > 0)

\* C4 amended: the guard of the page read at reconciliation holds as stated;
\* a run that ends with the other-items error after an AddProduct or an
\* UpdateQuantity found the lines at the confirmation poll that follows an
\* add, and names at least one line.
C4_ExtrasAbort ==
    /\ C4_ExtrasAbortAtReconcile
    /\ result = "cart contains other items"
       => (/\ pc = "done" /\ ~allowExtra /\ Len(errItems) > 0
           /\ ~NoCartRequest => (~cart.read /\ sent.AddProduct = 1))

\* C4, the case: two offending lines on the page read at reconciliation.
C4_Witness ==
    /\ cart.read /\ ~allowExtra
    /\ Len(OffendingLines) >= 2
    /\ errItems = OffendingNames

\* C5: when the first line of the target product on the cart page read at
\* reconciliation has the requested quantity, no UpdateQuantity and no
\* AddProduct is issued.
C5_NoRequestAtRequestedQuantity ==
    (/\ cart.read
     /\ \E i \in DOMAIN cart.items :
            /\ EqualFoldID(cart.items[i].ProductID, productID20L)
            /\ \A j \in 1..(i - 1) : ~EqualFoldID(cart.items[j].ProductID, productID20L)
            /\ cart.items[i].Quantity = quantity)
    => (NoCartRequest /\ pc \in {"jars", "done"}
        /\ (pc = "done" => result = "cart contains other items"))

\* C5, the case: reconciliation found the target at the requested quantity
\* and went on to the return jars.
C5_Witness ==
    /\ cart.read /\ pc = "jars"
    /\ cart.target[3] /\ cart.target[2] = quantity
    /\ NoCartRequest

\* C6: when the cart page read at reconciliation reports a positive item
\* count, in either phrasing, and no cart item parses from it, the run has
\* ended with the cart-parse error and no AddProduct and no UpdateQuantity
\* was issued.
C6_UnparsableCartAborts ==
    (/\ cart.read
     /\ Len(cart.items) = 0
     /\ (cart.cartCount > 0 \/ (cart.cartCount = NoMatch /\ cart.itemCount > 0)))
    => (/\ pc = "done"
        /\ result = "unable to parse cart items"
        /\ NoCartRequest)

\* C6, the case: a count of three in the second phrasing and no parsed line.
C6_Witness ==
    /\ cart.read
    /\ cart.cartCount = NoMatch /\ cart.itemCount = 3
    /\ Len(cart.items) = 0
    /\ result = "unable to parse cart items"

\* A place-order response that is a redirect to the order-placed location
\* carrying a non-empty orderID parameter.
OrderPlacedRedirect(r) ==
    /\ r.status \in {302, 303}
    /\ Contains(r.location, <<"/", "o", "r", "d", "e", "r", "p", "l", "a", "c", "e", "d">>)
    /\ \E i \in 1..Len(r.location) :
          /\ i + Len(OrderIDKey) <= Len(r.location)
          /\ SubSeq(r.location, i, i + Len(OrderIDKey) - 1) = OrderIDKey
          /\ r.location[i + Len(OrderIDKey)] # "&"

\* C7: a step reports success only when it is the place-order step and the
\* response is a 302/303 redirect to the order-placed location with a
\* non-empty orderID, and then the order ID and LastOrder are recorded; on
\* every other place-order response the run ends in failure with LastOrder
\* unchanged in the profile and in the profile file.
C7_SuccessNeedsOrderPlacedRedirect ==
    [][/\ (result' = "ok" /\ result # "ok")
          => (/\ pc = "placeOrder" /\ placed'.sent
              /\ OrderPlacedRedirect(placed')
              /\ orderID' # <<>>
              /\ profile'.LastOrder = <<OrderInfo(orderID', Now)>>)
       /\ (pc = "placeOrder" /\ pc' # "placeOrder" /\ ~OrderPlacedRedirect(placed'))
          => (/\ pc' = "done"
              /\ result' \notin {"", "ok"}
              /\ orderID' = <<>>
              /\ profile'.LastOrder = profile.LastOrder
              /\ profileFile'.LastOrder = profileFile.LastOrder)
       /\ (pc = "placeOrder" /\ pc' # "placeOrder" /\ OrderPlacedRedirect(placed'))
          => result' = "ok"]_vars

\* C7, the case: an order was placed and recorded.
C7_Witness ==
    /\ result = "ok"
    /\ placed.sent /\ placed.status \in {302, 303}
    /\ orderID # <<>>
    /\ profile.LastOrder = <<OrderInfo(orderID, Now)>>

(***************************************************************************)
(* Properties of the order command with its retry (SpecRetry).             *)
(***************************************************************************)
TimeoutMessage == "session expired and confirmation timed out; run 'bislericli auth login'"

CancelMessage == "session expired; login cancelled; run 'bislericli auth login'"

\* The answers that are consent: y or yes in any letter case.
Affirmative ==
    {<<"y">>, <<"Y">>}
    \cup {<<a, b, c>> : a \in {"y", "Y"}, b \in {"e", "E"}, c \in {"s", "S"}}

InWindow(input) == input.arrives /\ input.at <= promptWindow

ResendsTyped(l) == Len(SelectSeq(l.entered, LAMBDA x : x = ResendLine))

LastTyped(l) == l.entered[Len(l.entered)]

Returned(fn) == call.fn = fn /\ call.done

RequiredFields ==
    {"FirstName", "Address1", "City", "StateCode", "PostalCode", "Country", "Phone"}

OptionalFields ==
    {"LastName", "Address2", "Floor", "NearByLandmark", "Latitude", "Longitude"}

\* addr with its optional fields set as o sets them.
WithOptional(addr, o) ==
    [f \in DOMAIN addr |-> IF f \in OptionalFields THEN o[f] ELSE addr[f]]

\* C14: AddressIsComplete is true exactly when the seven required fields are
\* all non-empty, and gives the same answer whatever the optional fields hold.
C14_CompleteIffRequiredFields ==
    Returned("AddressIsComplete")
    => LET addr == call.arg[1]
       IN  /\ call.val[1] = (\A f \in RequiredFields : addr[f] # <<>>)
           /\ \A o \in [OptionalFields -> Blank] :
                 AddressIsComplete(WithOptional(addr, o)) = call.val[1]

\* C14, the case: a complete address with every optional field empty.
C14_Witness ==
    /\ Returned("AddressIsComplete") /\ call.val[1] = TRUE
    /\ \A f \in OptionalFields : call.arg[1][f] = <<>>

NoDigits(s) == \A i \in DOMAIN s : ~IsDigit(s[i])

\* C15: ParseINRAmount reports failure for every text that holds no digit
\* (the empty text, a currency symbol, separators, words), and every amount it
\* does return is a number that is not negative.
C15_NonNumericTextFails ==
    Returned("ParseINRAmount")
    => LET text == call.arg[1]
           amount == call.val[1][1]
           ok == call.val[1][2]
       IN  /\ NoDigits(text) => ~ok
           /\ ok => (amount.kind = "num" /\ amount.m >= 0)

\* C16: a positive whole-rupee amount printed after the currency symbol, with
\* or without separators, parses back to the same amount.
C16_RupeeRoundTrip ==
    Returned("RupeeText") => call.val[1] = <<Num(call.arg[1].v, 0), TRUE>>

\* C16, the case: 12,34,567 parses to 1234567.
C16_Witness ==
    /\ Returned("RupeeText")
    /\ call.arg[1] = [v |-> 1234567, style |-> "lakh"]
    /\ call.val[1] = <<Num(1234567, 0), TRUE>>

Retriable(resp) == resp.status >= 500 \/ resp.status = 429

\* What C17 says of a page fetch besides the reason for another attempt.
FetchEnds(answers, expectedPrefix, r) ==
    LET last == answers[r.gets]
    IN  /\ r.gets \in 1..3
        /\ \A i \in 1..r.gets :
              (answers[i].status \in 400..499 /\ answers[i].status # 429)
              => (i = r.gets /\ r.err # "")
        /\ (last.status \in 400..499 /\ last.status # 429 /\ HasPrefix(last.path, expectedPrefix))
           => (r.err = "HTTPStatusError" /\ r.status = last.status)
        /\ \A i \in 1..r.gets : answers[i].status \in 1..399 => i = r.gets
        /\ r.err = "" <=> (last.status \in 1..399 /\ HasPrefix(last.path, expectedPrefix))
        /\ (r.gets = 3 /\ (last = NetErr \/ (Retriable(last) /\ HasPrefix(last.path, expectedPrefix))))
           => (r.err = "request failed after retries" /\ r.status = last.status)

\* C17 as stated: at most 3 GETs; every GET but the last was answered 5xx or
\* 429; another 4xx fails at once; the first answer below 400 on the expected
\* path is the success; after 3 failed attempts the last error is returned.
C17_RetryOnlyAfter5xxOr429 ==
    Returned("fetchPageWithRetry")
    => LET answers == call.arg[1].answers
           r == call.val[1]
       IN  /\ FetchEnds(answers, call.arg[1].expectedPrefix, r)
           /\ \A i \in 1..(r.gets - 1) : Retriable(answers[i])

\* C17, amended: every GET but the last was answered 5xx or 429 on the
\* expected path, or was not answered at all (a transport error).
C17_RetryAfter5xx429OrTransportError ==
    Returned("fetchPageWithRetry")
    => LET answers == call.arg[1].answers
           p == call.arg[1].expectedPrefix
           r == call.val[1]
       IN  /\ FetchEnds(answers, p, r)
           /\ \A i \in 1..(r.gets - 1) :
                 answers[i] = NetErr \/ (Retriable(answers[i]) /\ HasPrefix(answers[i].path, p))

\* C17, the case: a transport error, a 500, then the page.
C17_Witness ==
    /\ Returned("fetchPageWithRetry")
    /\ call.arg[1].expectedPrefix = CheckoutPath
    /\ call.arg[1].answers = <<NetErr, Resp(500, CheckoutPath), Resp(200, CheckoutPath)>>
    /\ call.val[1].err = "" /\ call.val[1].gets = 3

LoginLike(path) ==
    \/ path = <<"/">> \/ path = <<>>
    \/ \E w \in {<<"l", "o", "g", "i", "n">>, <<"a", "c", "c", "o", "u", "n", "t">>, <<"h", "o", "m", "e">>} :
          Contains(ToLower(path), w)

\* C18: a landed path that starts with the expected prefix is no error; one
\* that does not is NotAuthenticated exactly when it is "/", empty or holds
\* login, account or home in any case, and otherwise an unexpected redirect
\* that carries the landed path.
C18_RedirectClassification ==
    Returned("validateResponsePath")
    => LET path == call.arg[1].resp.path
           r == call.val[1]
       IN  IF HasPrefix(path, call.arg[1].expectedPrefix) THEN r.err = ""
           ELSE /\ r.err = "ErrNotAuthenticated" <=> LoginLike(path)
                /\ ~LoginLike(path) => (r.err = "unexpected redirect" /\ r.path = path)

\* C18, the case: the cart request lands on /Login-Show.
C18_Witness ==
    /\ Returned("validateResponsePath")
    /\ call.arg[1].expectedPrefix = CartPath /\ call.arg[1].resp.path = LoginPath
    /\ call.val[1].err = "ErrNotAuthenticated"

(***************************************************************************)
(* Properties of Logout (SpecLogout).                                      *)
(***************************************************************************)
Answered2xx3xx(hit) == hit.status >= 200 /\ hit.status <= 399

\* The requests Logout makes when every one of them fails, in order.
LogoutAttempts(link) ==
    (IF link = <<>> THEN <<>> ELSE <<logoutTarget(link)>>)
    \o <<defaultBaseURL \o AccountLogoutPath, defaultBaseURL \o LoginLogoutPath,
         defaultBaseURL \o LogoutLogoutPath, defaultBaseURL \o ShortLogoutPath>>

\* C19: each logout request is the next of: the discovered link, then the
\* fallback endpoints in their order; it is made only while no earlier one was
\* answered 2xx-3xx; Logout returns success at the first one so answered; and
\* it returns failure only when all of them were made and none was so answered.
C19_LogoutStopsAtFirstSuccess ==
    [][/\ logout'.hits # logout.hits
          => (/\ Len(logout'.hits) = Len(logout.hits) + 1
              /\ SubSeq(logout'.hits, 1, Len(logout.hits)) = logout.hits
              /\ Len(logout'.hits) <= Len(LogoutAttempts(logout.link))
              /\ logout'.hits[Len(logout'.hits)].url
                    = LogoutAttempts(logout.link)[Len(logout'.hits)]
              /\ \A i \in DOMAIN logout.hits : ~Answered2xx3xx(logout.hits[i])
              /\ logout.pc # "done"
              /\ Answered2xx3xx(logout'.hits[Len(logout'.hits)])
                 => (logout'.pc = "done" /\ logout'.err = ""))
       /\ (logout'.pc = "done" /\ logout'.err # "")
          => (/\ Len(logout'.hits) = Len(LogoutAttempts(logout'.link))
              /\ \A i \in DOMAIN logout'.hits : ~Answered2xx3xx(logout'.hits[i]))
       /\ (logout'.pc = "done" /\ logout'.err = "")
          => Answered2xx3xx(logout'.hits[Len(logout'.hits)])]_vars

\* C19, the case: the link and the first fallback fail, the second fallback
\* is answered 302, and nothing more is requested.
C19_Witness ==
    /\ logout.pc = "done" /\ logout.err = ""
    /\ logout.link = SignOutAnchor.href
    /\ Len(logout.hits) = 3
    /\ logout.hits[1] = Hit(defaultBaseURL \o SignOutAnchor.href, 500)
    /\ logout.hits[2] = Hit(defaultBaseURL \o AccountLogoutPath, 0)
    /\ logout.hits[3] = Hit(defaultBaseURL \o LoginLogoutPath, 302)

(***************************************************************************)
(* The order of the stages of a run (Spec).                                *)
(***************************************************************************)
\* The session check was answered below 400 from /my-orders with a body.
SessionChecked ==
    /\ stages.session # <<>>
    /\ stages.session[1].resp.status \in 1..399
    /\ HasPrefix(stages.session[1].resp.path, OrdersPath)
    /\ ~stages.session[1].emptyBody

\* The submission was sent and answered below 400.
Succeeded(answers) == answers # <<>> /\ answers[1].status \in 1..399

\* The payment page read by the run passed runOrder's check of total and
\* balance.
TotalsPassed ==
    /\ payment.read
    /\ payment.total[2] /\ TotalAmount[2] /\ ~LeqZero(TotalAmount[1])
    /\ (payment.balance[2] /\ BalanceAmount[2]) => ~Less(BalanceAmount[1], TotalAmount[1])

\* C20: a step that sends AddProduct, UpdateQuantity or the jar quantity is
\* taken only after the session check succeeded; SubmitShipping is sent only
\* with the CSRF token and the shipment UUID of a shipping page; SubmitPayment
\* only after SubmitShipping succeeded and the totals passed; PlaceOrder only
\* after SubmitPayment succeeded; and LastOrder changes, in memory or in the
\* file, only in the step in which PlaceOrder returned an order ID, to that ID.
C20_StagesInOrder ==
    [][/\ (\/ sent'.AddProduct > sent.AddProduct
           \/ sent'.UpdateQuantity > sent.UpdateQuantity
           \/ (pc = "jars" /\ pc' # "jars"))
          => SessionChecked
       /\ stages'.shipping # stages.shipping
          => (/\ SessionChecked
              /\ shipping.csrfToken # "" /\ shipping.shipmentUUID # <<>>
              /\ stages.payment = <<>> /\ ~placed.sent)
       /\ stages'.payment # stages.payment
          => (Succeeded(stages.shipping) /\ TotalsPassed /\ ~placed.sent)
       /\ sent'.PlaceOrder > sent.PlaceOrder
          => (Succeeded(stages.shipping) /\ Succeeded(stages.payment))
       /\ (profile'.LastOrder # profile.LastOrder \/ profileFile'.LastOrder # profileFile.LastOrder)
          => (/\ sent'.PlaceOrder > sent.PlaceOrder
              /\ placed'.sent /\ orderID' # <<>>
              /\ profile'.LastOrder = <<OrderInfo(orderID', Now)>>
              /\ profileFile'.LastOrder \in {profile'.LastOrder, profileFile.LastOrder})]_vars

\* C20, the case: a run through all stages that recorded its order.
C20_Witness ==
    /\ pc = "done" /\ result = "ok"
    /\ SessionChecked /\ Succeeded(stages.shipping) /\ Succeeded(stages.payment)
    /\ placed.sent /\ orderID # <<>>
    /\ profile.LastOrder = <<OrderInfo(orderID, Now)>>
    /\ profileFile.LastOrder = profile.LastOrder

(***************************************************************************)
(* Properties of the run's deadline (SpecWaits).                           *)
(***************************************************************************)
\* The run has ended with an error after one of its waits returned
\* because the deadline had fired.
EndedAfterDeadline == run.pc = "done" /\ run.hit # "" /\ run.err # NoErr

\* C21: when a wait of the run (throttle, backoff, the delay between polls,
\* the settle delays) returned because the deadline had fired, the error
\* the run ends with is the deadline-exceeded error, still found by
\* errors.Is, and is not the session-expiry error.
C21_DeadlineErrorIdentifiable ==
    EndedAfterDeadline => run.err = ctxErr /\ run.err.kind # "auth"

\* A request of the run goes out to the network.
RequestIssued == run.phase # "network" /\ run'.phase = "network"

\* C22: every blocking step of the run observes the deadline: once it has
\* fired no request is issued any more, and the run ends with a failure,
\* whichever step it was blocked in (request, throttle, backoff, settle
\* delay or a prompt).
C22_EveryStepObservesDeadline ==
    /\ [][run.fired => ~RequestIssued]_vars
    /\ run.fired ~> (run.pc = "done" /\ run.err # NoErr)

\* How often the run has executed a stage.
Times(s) == run.times[s]

\* C23 as stated: within one run no stage is executed more than once, but
\* for the GETs of a page fetch, the polls after an add and one more fetch
\* of the shipping page.
C23_NoStageRepeated ==
    \A s \in WaitStages : Times(s) <= (IF s = "shipFetch" THEN 2 ELSE 1)

\* C23, amended: within one run no stage is executed more than once, but
\* for the GETs of a page fetch (at most 3), the polls after an add (at
\* most 4), BeginCheckout (a second time after its first try failed, and
\* once more before the shipping page is fetched again), the shipping page
\* (once more, after status 500) and the payment page (once more, after
\* the order is placed).
C23_StagesRepeatOnlyAsCoded ==
    /\ \A s \in WaitStages \ {"begin", "shipFetch", "payFetch"} : Times(s) <= 1
    /\ Times("begin") <= 3 /\ Times("shipFetch") <= 2 /\ Times("payFetch") <= 2
    /\ Times("shipFetch") = 2 => run.begins = 3
    /\ Times("begin") = 3 => run.begins = 3
    /\ Times("payFetch") = 2 => Times("place") = 1
    /\ run.n <= maxAttempts /\ run.poll <= confirmMaxAttempts

\* A run that tried BeginCheckout three times and fetched the shipping page
\* twice has placed the order.
C23_Witness ==
    /\ run.pc = "done" /\ run.err = NoErr
    /\ Times("begin") = 3 /\ Times("shipFetch") = 2 /\ Times("payFetch") = 2

(***************************************************************************)
(* Properties of the cart of a run (Spec).                                  *)
(***************************************************************************)
\* confirmCartQuantity returned nil: the run goes on after an AddProduct.
ConfirmedByPoll == pc = "jars" /\ sent.AddProduct > 0

\* The last poll read the target line, with the quantity asked for, or with
\* quantity zero.
TargetPolled == sent.polled # <<>> /\ sent.polled[1][3] /\ sent.polled[1][1] # ""

ObservedRequested == TargetPolled /\ sent.polled[1][2] = quantity

ObservedZero == TargetPolled /\ sent.polled[1][2] = 0

\* A poll of confirmCartQuantity while polls are left.
EarlyPoll == pc = "confirm" /\ poll < confirmMaxAttempts

\* confirmCartQuantity gives up only after its last poll.
GivesUpAfterLastPoll ==
    (pc = "confirm" /\ result' = "unable to confirm cart quantity after add")
        => poll = confirmMaxAttempts

\* C24 as stated: after AddProduct the cart is polled at most 4 times;
\* success is returned only on a poll that saw the target line at the
\* quantity asked for; a poll that sees quantity zero leads to another poll
\* while polls are left; the error comes after 4 polls.
C24_SuccessOnlyOnObservedQuantity ==
    /\ [](poll <= confirmMaxAttempts)
    /\ [](ConfirmedByPoll => ObservedRequested)
    /\ [][EarlyPoll /\ ObservedZero' => pc' = "confirm" /\ poll' = poll + 1]_vars
    /\ [][GivesUpAfterLastPoll]_vars

\* C24, amended: after AddProduct the cart is polled at most 4 times;
\* success is returned on a poll that saw the target line at the quantity
\* asked for, or that saw it at quantity zero and sent an UpdateQuantity;
\* a poll that sees quantity zero ends in success or in another poll while
\* polls are left, never in the error of confirmCartQuantity, unless the
\* cart holds other items; the error comes after 4 polls.
C24_SuccessOnObservedOrUpdatedZero ==
    /\ [](poll <= confirmMaxAttempts)
    /\ [](ConfirmedByPoll =>
            ObservedRequested \/ (ObservedZero /\ sent.UpdateQuantity >= 1))
    /\ [][EarlyPoll /\ ObservedZero' =>
            \/ pc' = "jars"
            \/ pc' = "confirm" /\ poll' = poll + 1 /\ sent'.UpdateQuantity = sent.UpdateQuantity + 2
            \/ result' = "cart contains other items"]_vars
    /\ [][GivesUpAfterLastPoll]_vars

\* A poll saw the target line at quantity zero, the update went through and
\* confirmCartQuantity returned nil.
C24_Witness == ConfirmedByPoll /\ ObservedZero /\ sent.UpdateQuantity >= 1

\* The cart read by ReconcileCart shows the target line at a quantity that
\* is not the one asked for.
TargetSeen == cart.read /\ cart.target[3] /\ cart.target[1] # ""

QuantityDiffers == TargetSeen /\ cart.target[2] # quantity

\* One UpdateQuantity with the uuid of the line read and the quantity asked
\* for goes out, and no AddProduct.
OneUpdateNoAdd ==
    /\ sent'.UpdateQuantity = sent.UpdateQuantity + 1
    /\ sent'.update = <<cart'.target[1], quantity>>
    /\ sent'.AddProduct = sent.AddProduct

\* The guards of ReconcileCart let the cart through: it holds no other
\* items, or the override flag is set.
GuardsPassed == filterExtraItems(cart.items, productID20L) = <<>> \/ allowExtra

\* C25 as stated: when the cart fetched shows the target line at a parsed
\* quantity other than the one asked for (zero included), ReconcileCart
\* issues exactly one UpdateQuantity with that line's uuid and the quantity
\* asked for, and no AddProduct.
C25_DifferentQuantityUpdates ==
    [][pc = "reconcile" /\ QuantityDiffers' => OneUpdateNoAdd]_vars

\* C25, amended: the same, for a cart that holds no other items or with the
\* override flag set.
C25_DifferentQuantityUpdatesPastGuards ==
    [][pc = "reconcile" /\ QuantityDiffers' /\ GuardsPassed' => OneUpdateNoAdd]_vars

\* ReconcileCart read the target line at quantity zero and has sent one
\* UpdateQuantity with its uuid and the quantity asked for.
C25_Witness ==
    /\ pc = "jars" /\ sent.AddProduct = 0 /\ sent.UpdateQuantity = 1
    /\ TargetSeen /\ cart.target[2] = 0
    /\ sent.update = <<cart.target[1], quantity>>

(***************************************************************************)
(* Properties of BeginCheckout and matchCityOption (SpecCalls).            *)
(***************************************************************************)
\* BeginCheckout was applied to a cart page it could fetch and that holds no
\* checkout form.
BeganWithoutForm ==
    Returned("BeginCheckout") /\ call.arg[1].fetch.err = "" /\ call.arg[1].form = <<>>

\* The candidates whose submission does not error.
Accepted ==
    {i \in DOMAIN call.arg[1].candidates :
        SubmitCheckoutForm(call.arg[1].candidates[i], call.arg[1].resps[i]) = ""}

\* C26: without a checkout form on the cart page BeginCheckout submits the
\* candidates one at a time in the order of discovery; it returns success
\* at the first submission that does not error and submits no later
\* candidate; when every candidate fails, or there is none, it returns the
\* error of ExtractCheckoutForm.
C26_CandidatesInOrderUntilSuccess ==
    BeganWithoutForm =>
        IF Accepted = {}
        THEN /\ call.val[1].err = "checkout form not found"
             /\ call.val[1].submitted = call.arg[1].candidates
        ELSE /\ call.val[1].err = ""
             /\ call.val[1].submitted = SubSeq(call.arg[1].candidates, 1, First(Accepted))

\* The first candidate failed, the second was accepted and the third was
\* not submitted.
C26_Witness ==
    /\ BeganWithoutForm /\ Len(call.arg[1].candidates) = 3
    /\ Accepted = {2, 3} /\ Len(call.val[1].submitted) = 2 /\ call.val[1].err = ""

(***************************************************************************)
(* Properties of the city and the address of a run (Spec).                 *)
(***************************************************************************)
\* ensureCityLocation runs; the city the cart page shows as selected and the
\* city resolved are kept in cart.
CityStep == pc = "city"

SelectedCity == cart.city[1].selected

ResolvedCity == cart.city[1].resolved

ProfileUnchanged == profile' = profile /\ profileFile' = profileFile

\* One SetCityLocation request with the city resolved has gone out.
OneLocationRequest ==
    /\ sent'.SetCityLocation = sent.SetCityLocation + 1
    /\ sent'.location # <<>> /\ sent'.location[1].city = ResolvedCity'

Trimmed == TrimSpace(call.arg[1].candidate)

Offered == call.arg[1].options

Matched == call.val[1]

NoCityMatch == Matched = << <<>>, FALSE >>

\* The options equal to a text but for case, and the options one of which
\* contains the other.
EqualOptions(text) == {i \in DOMAIN Offered : EqualFold(Offered[i], text)}

Overlapping ==
    {i \in DOMAIN Offered :
        \/ Contains(ToLower(Trimmed), ToLower(Offered[i]))
        \/ Contains(ToLower(Offered[i]), ToLower(Trimmed))}

Alias == aliases(ToLower(Trimmed))

\* C28: matchCityOption returns the option equal to the candidate but for
\* case, else the option equal to the alias of the candidate, else the one
\* option that contains the candidate or is contained in it; it reports no
\* match for an empty candidate and when no option or several overlap; a
\* value returned with ok is one of the options.
C28_MatchPrecedence ==
    Returned("matchCityOption") =>
        /\ Matched[2] => \E i \in DOMAIN Offered : Offered[i] = Matched[1]
        /\ IF Trimmed = <<>> \/ Offered = <<>> THEN NoCityMatch
           ELSE IF EqualOptions(Trimmed) # {}
           THEN Matched = <<Offered[First(EqualOptions(Trimmed))], TRUE>>
           ELSE IF Alias # <<>> /\ EqualOptions(Alias) # {}
           THEN Matched = <<Offered[First(EqualOptions(Alias))], TRUE>>
           ELSE IF Cardinality(Overlapping) = 1
           THEN \E i \in Overlapping : Matched = <<Offered[i], TRUE>>
           ELSE NoCityMatch

\* The alias of the candidate is an option and another option contains the
\* candidate: the alias wins.
C28_Witness ==
    /\ Returned("matchCityOption") /\ Matched[2]
    /\ EqualOptions(Trimmed) = {} /\ Alias # <<>> /\ EqualOptions(Alias) # {}
    /\ Overlapping # {} /\ Overlapping \cap EqualOptions(Alias) = {}
    /\ EqualFold(Matched[1], Alias)

\* The step that reads the shipping page, and the profile lacking a saved
\* address or its identifier before it.
AddressStep == pc = "parseShipping"

Unresolved == profile.Address = <<>> \/ profile.AddressID = ""

\* The run is about to issue SubmitShipping; the candidates read from the
\* shipping page are kept until it is issued.
ShippingReady == pc = "submitShipping"

Scraped == shipping.candidates

\* to is from with blank fields filled in.
Completes(from, to) ==
    \A f \in DOMAIN from : from[f] # <<>> => to[f] = from[f]

\* The candidate the profile took: the sole one, else the first one marked
\* default, else any.
TakenFrom(cs, prof) ==
    \E i \in DOMAIN cs :
        /\ prof.AddressID = cs[i].ID
        /\ Completes(cs[i].Address, prof.Address[1])
        /\ (Len(cs) > 1 /\ \E j \in DOMAIN cs : cs[j].IsDefault)
              => (cs[i].IsDefault /\ \A j \in 1..(i - 1) : ~cs[j].IsDefault)

\* C29: the address is resolved only when the profile lacks a saved address
\* or its identifier; the candidate taken is the one marked default, or the
\* sole one, or one the operator chose, always one of the candidates read
\* from the page; it is in the profile file with its identifier and the
\* source tag before SubmitShipping is issued; without candidates the run
\* ends.
C29_AddressResolvedFromCandidates ==
    [][AddressStep =>
        /\ ~Unresolved =>
              /\ profile'.AddressID = profile.AddressID
              /\ profile'.AddressSource = profile.AddressSource
              /\ Completes(profile.Address[1], profile'.Address[1])
        /\ Unresolved /\ ShippingReady' =>
              /\ Scraped' # <<>>
              /\ TakenFrom(Scraped', profile')
              /\ profile'.AddressSource = "shipping-page"
              /\ profileFile' = profile'
        /\ Unresolved /\ ~ShippingReady' => pc' = "done" /\ stages' = stages]_vars

\* The profile had no address, the page listed two candidates with none
\* marked default, and the second is in the profile file.
C29_Witness ==
    /\ ShippingReady /\ Len(Scraped) = 2
    /\ \A i \in DOMAIN Scraped : ~Scraped[i].IsDefault
    /\ profileFile.AddressID = Scraped[2].ID
    /\ profileFile.AddressSource = "shipping-page"
    /\ profileFile.Address # <<>>

\* C30: the address passed to SubmitShipping has every required field: an
\* address that lacks one is completed at the prompt before it is used, and
\* the profile file holds the completed address when SubmitShipping is
\* issued.
C30_ShippingAddressComplete ==
    ShippingReady =>
        /\ profile.Address # <<>>
        /\ AddressIsComplete(profile.Address[1])
        /\ profileFile.Address = profile.Address

(***************************************************************************)
(* Properties of the page extractors (SpecCalls).                          *)
(***************************************************************************)
\* C31: whenever the page has an input named csrf_token with a non-empty
\* value, ExtractCSRFToken returns that value; it fails exactly when neither
\* the input nor the pattern yields a value.
C31_InputBeforePattern ==
    (call.fn = "ExtractCSRFToken" /\ call.done) =>
        LET page == call.arg[1]
            got  == call.val[1]
        IN  /\ page.csrfInput # "" => got = <<page.csrfInput, TRUE>>
            /\ ~got[2] <=> (page.csrfInput = "" /\ page.csrfMatch = "")

\* C32: a value returned without error is lowercase hex of at least 16
\* characters, and a value of the input or of the data attribute that has
\* not that shape once trimmed is not what is returned.
C32_ShipmentUUIDIsHex ==
    (call.fn = "ExtractShipmentUUID" /\ call.done /\ call.val[1][2]) =>
        LET page == call.arg[1]
            got  == call.val[1][1]
        IN  /\ IsShipmentHex(got)
            /\ \A v \in {page.shipInput, page.shipData} :
                    ~IsShipmentHex(TrimSpace(v)) => got \notin {v, TrimSpace(v)}

\* An input value that is an address identifier is passed over and the
\* pattern's capture is returned.
C32_Witness ==
    /\ call.fn = "ExtractShipmentUUID" /\ call.done
    /\ call.arg[1].shipInput = AddressID
    /\ call.arg[1].shipData = UpperHex
    /\ call.val[1] = <<ShipmentB, TRUE>>

\* The lines of a list that carry what a cart line needs from its strategy.
WithUUID(ls) == SelectSeq(ls, LAMBDA it : it.UUID # "")

WithProductAndUUID(ls) == SelectSeq(ls, LAMBDA it : it.ProductID # "" /\ it.UUID # "")

\* C33: ExtractCartItems returns the lines of the data-uuid scan when there is
\* one, else those of the action URLs when there is one, else those of the
\* regex scan; never lines of two strategies, and every line has a uuid.
C33_OrderedFallback ==
    (call.fn = "ExtractCartItems" /\ call.done) =>
        LET page == call.arg[1]
            got  == call.val[1]
            scanned == WithUUID(page.scan)
            urls == WithProductAndUUID(page.actionURLs)
        IN  /\ got = IF scanned # <<>> THEN scanned
                     ELSE IF urls # <<>> THEN urls
                     ELSE page.regexHits
            /\ \A i \in DOMAIN got : got[i].UUID # ""

\* The scan finds an element without uuid only, an action URL lacks its uuid,
\* and the lines returned are those of the other action URL.
C33_Witness ==
    /\ call.fn = "ExtractCartItems" /\ call.done
    /\ call.arg[1].scan # <<>>
    /\ Len(call.arg[1].actionURLs) = 2
    /\ call.val[1] = <<call.arg[1].actionURLs[1]>>

(***************************************************************************)
(* Properties of normalizeStateCode (SpecCalls).                           *)
(***************************************************************************)
IsUpper(c) == \E j \in 1..26 : Upper[j] = c

\* A character of a word: a letter, a digit or the underscore.
IsWord(c) == IsUpper(c) \/ (\E j \in 1..26 : Lower[j] = c) \/ IsDigit(c) \/ c = "_"

\* Where a standalone token of two capitals other than IN starts in s.
StateTokens(s) ==
    {i \in 1..(Len(s) - 1) :
        /\ IsUpper(s[i]) /\ IsUpper(s[i + 1])
        /\ i = 1 \/ ~IsWord(s[i - 1])
        /\ i + 1 = Len(s) \/ ~IsWord(s[i + 2])
        /\ SubSeq(s, i, i + 1) # <<"I", "N">>}

\* C34: a state code of two characters is left as it is; otherwise, when
\* address line 1 holds a standalone token of two capitals other than IN, the
\* state code becomes the first such token.
C34_StateCodeInferred ==
    (call.fn = "normalizeStateCode" /\ call.done) =>
        LET addr == call.arg[1]
            got  == call.val[1]
            at   == StateTokens(addr.Address1)
        IN  /\ Len(addr.StateCode) = 2 => got = addr
            /\ (Len(addr.StateCode) # 2 /\ at # {}) =>
                    got.StateCode = SubSeq(addr.Address1, First(at), First(at) + 1)

(***************************************************************************)
(* Properties of the payment and the order of a command (SpecRetry, Spec). *)
(***************************************************************************)
\* Session loss has been reported to the retry orchestration or to the
\* operator.
SessionLossReported ==
    \/ pc \in {"prompt", "reauth"}
    \/ pc = "done" /\ result \in {"ErrNotAuthenticated", TimeoutMessage, CancelMessage}

\* C35: over one order command, the run after reauthentication included, at
\* most one SubmitPayment and one PlaceOrder request go out (the counts are
\* at most one and no step takes a counted request back), and session loss
\* is reported only while no SubmitPayment request has gone out.
C35_PaymentAndOrderAtMostOnce ==
    /\ [](/\ sent.SubmitPayment <= 1 /\ sent.PlaceOrder <= 1
          /\ SessionLossReported => (sent.SubmitPayment = 0 /\ sent.PlaceOrder = 0))
    /\ [][/\ sent'.SubmitPayment >= sent.SubmitPayment
           /\ sent'.PlaceOrder >= sent.PlaceOrder]_vars

\* The run after reauthentication submitted the payment and its PlaceOrder
\* failed: the command ends with one request of each.
C35_Witness ==
    /\ pc = "done" /\ reauths = 1 /\ attempt = 2
    /\ result = "place order failed"
    /\ sent.SubmitPayment = 1 /\ sent.PlaceOrder = 1

\* C36: once PlaceOrder has returned an order ID, the run has ended in
\* success with that order ID, whether or not the profile was saved and the
\* payment page was fetched again.
C36_PlacedOrderEndsInSuccess ==
    (placed.sent /\ PlaceOrder(placed).err = "" /\ PlaceOrder(placed).orderID # <<>>) =>
        /\ pc = "done" /\ result = "ok"
        /\ orderID = PlaceOrder(placed).orderID

\* The order is placed, the save of the profile failed and so did the fetch
\* of the payment page.
C36_Witness ==
    /\ placed.sent /\ orderID # <<>> /\ result = "ok"
    /\ profile.LastOrder # <<>> /\ profileFile.LastOrder = <<>>
    /\ placed.after \notin {<<>>, <<"">>}

(***************************************************************************)
(* Properties of the confirmation of the cart (Spec).                      *)
(***************************************************************************)
\* C37: one poll of confirmCartQuantity issues at most one UpdateQuantity
\* request, so one confirmation issues at most confirmMaxAttempts of them.
C37_OneUpdatePerPoll ==
    /\ [][pc = "confirm" => sent'.UpdateQuantity <= sent.UpdateQuantity + 1]_vars
    /\ [](pc = "confirm" => sent.UpdateQuantity <= confirmMaxAttempts)

(***************************************************************************)
(* Properties of auth login (SpecAuth).                                    *)
(***************************************************************************)
\* C38: after auth login on a profile that existed, the file holds the saved
\* address, its identifier, its source tag, the preferred city and the last
\* order that the profile had before.
C38_LoginKeepsProfileData ==
    (auth.pc = "done" /\ auth.err = "" /\ ~auth.created) =>
        LET was == auth.existing[1]
            now == auth.disk[auth.name].profile
        IN  /\ now.Address = was.Address
            /\ now.AddressID = was.AddressID
            /\ now.AddressSource = was.AddressSource
            /\ now.PreferredCity = was.PreferredCity
            /\ now.LastOrder = was.LastOrder

\* The name holds "..", "/" or "\".
Traversing(name) ==
    \/ \E i \in 1..(Len(name) - 1) : name[i] = "." /\ name[i + 1] = "."
    \/ \E i \in DOMAIN name : name[i] = "/" \/ name[i] = "\\"

\* C39: loading a profile changes no file but that of the name, and that one
\* only from absent to the new profile; a file that cannot be read or
\* decoded, or lacks a name, and a name holding "..", "/" or "\", give an
\* error and leave every file as it was.
C39_LoadNeverOverwrites ==
    [][auth.pc = "start" =>
        LET name == auth'.name
        IN  /\ \A n \in ProfileNames :
                 auth'.disk[n] # auth.disk[n] =>
                    /\ n = name /\ auth.disk[n] = Absent
                    /\ auth'.disk[n] = Stored(NewProfile(n))
            /\ (name # <<>> /\ auth.disk[name].kind \in {"unreadable", "garbled"}) =>
                 (auth'.pc = "done" /\ auth'.err # "" /\ auth'.disk = auth.disk)
            /\ (name # <<>> /\ auth.disk[name] = Stored(NewProfile(<<>>))) =>
                 (auth'.pc = "done" /\ auth'.err # "" /\ auth'.disk = auth.disk)
            /\ (name # <<>> /\ Traversing(name)) =>
                 (auth'.pc = "done" /\ auth'.err # "" /\ auth'.disk = auth.disk)]_vars

\* A profile file that is not JSON was loaded: the command ended with the
\* decoding error and the file is as it was.
C39_Witness ==
    /\ auth.pc = "done" /\ auth.name = DefaultName
    /\ auth.err = "decode error"
    /\ auth.disk[DefaultName] = Garbled

====
